---------------------------- MODULE Spec2Model ----------------------------
(***************************************************************************)
(* The embedded JSON-file backend of the registry (internal/database/      *)
(* jsonfile.go): the in-memory dataset db.data.Servers, the target file    *)
(* and its ".tmp" sibling, the reader/writer lock db.mu, the registry of   *)
(* per-name publish locks db.locks, and the transactions of InTransaction. *)
(***************************************************************************)
EXTENDS Integers, Sequences, FiniteSets, TLC

(***************************************************************************)
(* Bounds of the model.                                                    *)
(***************************************************************************)
NProcs == 2
MaxRecords == 2
MaxTime == 1
MaxFaults == 1
MaxListLen == 3
MaxLimit == 2
MaxPages == 4
NMsgs == 2
MaxSyncFaults == 1
MaxBatch == 2
CfgSlack == 2

Procs == 1..NProcs

(***************************************************************************)
(* Strings.  A Go string is the sequence of its bytes; TLC cannot look     *)
(* inside a string, so every string the model uses is listed here with its *)
(* bytes.  The first two names have the same 64-bit FNV-1a hash.           *)
(***************************************************************************)
NameA == "7mohtcOFVz"
NameB == "c1E51sSEyx"
NameC == "io.example/foo"
Names == {NameA, NameB, NameC}
Versions == {"1.0.0", "1.1.0"}
RemoteU == "https://r.example/mcp"

Bytes(s) ==
    CASE s = "7mohtcOFVz" -> <<55, 109, 111, 104, 116, 99, 79, 70, 86, 122>>
      [] s = "c1E51sSEyx" -> <<99, 49, 69, 53, 49, 115, 83, 69, 121, 120>>
      [] s = "io.example/foo" ->
             <<105, 111, 46, 101, 120, 97, 109, 112, 108, 101, 47, 102, 111, 111>>
      [] s = "1.0.0" -> <<49, 46, 48, 46, 48>>
      [] s = "1.1.0" -> <<49, 46, 49, 46, 48>>
      [] s = "https://r.example/mcp" ->
             <<104, 116, 116, 112, 115, 58, 47, 47, 114, 46, 101, 120, 97,
               109, 112, 108, 101, 47, 109, 99, 112>>
      [] s = "s3://" -> <<115, 51, 58, 47, 47>>
      [] s = "https://" -> <<104, 116, 116, 112, 115, 58, 47, 47>>
      [] s = "http://" -> <<104, 116, 116, 112, 58, 47, 47>>
      [] s = ".s3.amazonaws.com" ->
             <<46, 115, 51, 46, 97, 109, 97, 122, 111, 110, 97, 119, 115, 46, 99, 111, 109>>
      [] s = ".s3." -> <<46, 115, 51, 46>>
      [] s = ".amazonaws.com" ->
             <<46, 97, 109, 97, 122, 111, 110, 97, 119, 115, 46, 99, 111, 109>>
      [] s = "s3.amazonaws.com" ->
             <<115, 51, 46, 97, 109, 97, 122, 111, 110, 97, 119, 115, 46, 99, 111, 109>>
      [] s = "s3." -> <<115, 51, 46>>
      [] s = "b" -> <<98>>
      [] s = "my-bucket" -> <<109, 121, 45, 98, 117, 99, 107, 101, 116>>
      [] s = "a.s3.b" -> <<97, 46, 115, 51, 46, 98>>
      [] s = "registry" -> <<114, 101, 103, 105, 115, 116, 114, 121>>
      [] s = "k" -> <<107>>
      [] s = "EXAMPLE" -> <<69, 88, 65, 77, 80, 76, 69>>
      [] s = "ns:srv" -> <<110, 115, 58, 115, 114, 118>>
      [] s = "d/k.json" -> <<100, 47, 107, 46, 106, 115, 111, 110>>
      [] s = "registry.json" ->
             <<114, 101, 103, 105, 115, 116, 114, 121, 46, 106, 115, 111, 110>>
      [] s = "us-east-1" -> <<117, 115, 45, 101, 97, 115, 116, 45, 49>>
      [] s = "eu-west-1" -> <<101, 117, 45, 119, 101, 115, 116, 45, 49>>
      [] s = "example.com" ->
             <<101, 120, 97, 109, 112, 108, 101, 46, 99, 111, 109>>
      [] s = "file.json" -> <<102, 105, 108, 101, 46, 106, 115, 111, 110>>
      [] s = "/" -> <<47>>
      [] s = "" -> <<>>

(***************************************************************************)
(* hash/fnv New64a: 64-bit FNV-1a.  A 64-bit word is kept as its 8 bytes,  *)
(* least significant first, so that no product leaves TLC's integers.      *)
(***************************************************************************)
RECURSIVE XorBits(_, _, _)
XorBits(a, b, n) ==
    IF n = 0 THEN 0
    ELSE ((a + b) % 2) + 2 * XorBits(a \div 2, b \div 2, n - 1)

XorByte(a, b) == XorBits(a, b, 8)

\* offset64 = 14695981039346656037 = 0xcbf29ce484222325
FnvOffset64 == <<37, 35, 34, 132, 228, 156, 242, 203>>

\* prime64 = 1099511628211 = 2^40 + 435: w * prime64 = w * 435 + (w << 40),
\* the bytes above the eighth dropped (uint64 arithmetic wraps).
RECURSIVE MulPrimeFrom(_, _, _)
MulPrimeFrom(w, i, carry) ==
    IF i > 8 THEN <<>>
    ELSE LET t == w[i] * 435 + (IF i > 5 THEN w[i - 5] ELSE 0) + carry
         IN  <<t % 256>> \o MulPrimeFrom(w, i + 1, t \div 256)

MulPrime64(w) == MulPrimeFrom(w, 1, 0)

RECURSIVE FnvWrite(_, _)
FnvWrite(h, bs) ==
    IF bs = <<>> THEN h
    ELSE FnvWrite(MulPrime64([h EXCEPT ![1] = XorByte(h[1], Head(bs))]), Tail(bs))

Sum64a(bs) == FnvWrite(FnvOffset64, bs)

\* The lock id of a server name (AcquirePublishLock, lines 449-451).
LockIDTable == [n \in Names |-> Sum64a(Bytes(n))]
LockIDOfNothing(n) == FnvOffset64
LockID(n) == LockIDTable[n]


(***************************************************************************)
(* Values.  A nil pointer is the empty sequence, a non-nil one the         *)
(* one-element sequence of what it points to.                              *)
(***************************************************************************)
Nil == <<>>
Some(v) == <<v>>
Deref(p) == p[1]

NoErr == "nil"
ErrAlreadyExists == "ErrAlreadyExists"
ErrNotFound == "ErrNotFound"
ErrDatabase == "ErrDatabase"
ErrIO == "EIO"

StatusActive == "active"
StatusDeprecated == "deprecated"

\* apiv0.ServerJSON, as far as the backend reads it: Name, Version, Remotes
\* (their URLs), and a Description standing for the rest of the document.
ServerJSON(n, v, d, rs) ==
    [Name |-> n, Version |-> v, Description |-> d, Remotes |-> rs]

\* apiv0.RegistryExtensions
RegistryExtensions(st, pub, upd, latest) ==
    [Status |-> st, PublishedAt |-> pub, UpdatedAt |-> upd, IsLatest |-> latest]

\* serverRecord
ServerRecord(n, v, st, pub, upd, latest, value, meta) ==
    [ServerName |-> n, Version |-> v, Status |-> st, PublishedAt |-> pub,
     UpdatedAt |-> upd, IsLatest |-> latest, Value |-> value, Meta |-> meta]

\* The apiv0.ServerResponse every read builds from a record; the payload
\* pointer is dereferenced, which panics when it is nil.
ServerResponse(r) ==
    [Server |-> Deref(r.Value),
     Meta |-> RegistryExtensions(r.Status, r.PublishedAt, r.UpdatedAt, r.IsLatest)]

(***************************************************************************)
(* The file form of the dataset: json.MarshalIndent of jsonFileData, and   *)
(* json.Unmarshal back.  Field names are the json tags; "meta" is          *)
(* omitempty, "value" is null for a nil pointer.                           *)
(***************************************************************************)
MarshalValue(p) ==
    IF p = Nil THEN Nil
    ELSE Some([name |-> Deref(p).Name, version |-> Deref(p).Version,
               description |-> Deref(p).Description, remotes |-> Deref(p).Remotes])

MarshalMeta(m) ==
    [status |-> m.Status, published_at |-> m.PublishedAt,
     updated_at |-> m.UpdatedAt, is_latest |-> m.IsLatest]

MarshalRecordWithoutMeta(r) ==
    [server_name |-> r.ServerName, version |-> r.Version,
     status |-> r.Status, published_at |-> r.PublishedAt,
     updated_at |-> r.UpdatedAt, is_latest |-> r.IsLatest,
     value |-> MarshalValue(r.Value)]

MarshalRecord(r) ==
    LET base == [server_name |-> r.ServerName, version |-> r.Version,
                 status |-> r.Status, published_at |-> r.PublishedAt,
                 updated_at |-> r.UpdatedAt, is_latest |-> r.IsLatest,
                 value |-> MarshalValue(r.Value)]
    IN  IF r.Meta = Nil THEN base
        ELSE [k \in DOMAIN base \cup {"meta"} |->
                 IF k = "meta" THEN MarshalMeta(Deref(r.Meta)) ELSE base[k]]

Marshal(servers_) == [i \in 1..Len(servers_) |-> MarshalRecord(servers_[i])]

UnmarshalValue(j) ==
    IF j = Nil THEN Nil
    ELSE Some(ServerJSON(j[1].name, j[1].version, j[1].description, j[1].remotes))

UnmarshalRecord(o) ==
    ServerRecord(o.server_name, o.version, o.status, o.published_at,
                 o.updated_at, o.is_latest, UnmarshalValue(o.value),
                 IF "meta" \in DOMAIN o
                 THEN Some(RegistryExtensions(o.meta.status, o.meta.published_at,
                                              o.meta.updated_at, o.meta.is_latest))
                 ELSE Nil)

Unmarshal(doc) == [i \in 1..Len(doc) |-> UnmarshalRecord(doc[i])]

\* What a path holds: no file, a file of zero bytes, a cut-off document
\* (what a failed or interrupted write leaves), or a whole document.
FileAbsent == [kind |-> "absent", doc |-> <<>>]
FileEmpty == [kind |-> "empty", doc |-> <<>>]
FilePartial == [kind |-> "partial", doc |-> <<>>]
FileJSON(doc) == [kind |-> "json", doc |-> doc]

(***************************************************************************)
(* The reads.  Each is a function of the dataset it sees under db.mu's     *)
(* read lock.  A result is [panic, err, val, next]: val the responses      *)
(* returned, next the cursor ListServers returns beside them.              *)
(***************************************************************************)
Result(e, val, next) == [panic |-> FALSE, err |-> e, val |-> val, next |-> next]
Panic == [panic |-> TRUE, err |-> NoErr, val |-> <<>>, next |-> <<>>]

\* The first index a range loop with an early return stops at; 0 if none.
FirstIndex(S) == IF S = {} THEN 0 ELSE CHOOSE i \in S : \A j \in S : i <= j

Colon == 58

\* strings.Split(s, ":")
RECURSIVE SplitFrom(_, _)
SplitFrom(bs, cur) ==
    IF bs = <<>> THEN <<cur>>
    ELSE IF Head(bs) = Colon THEN <<cur>> \o SplitFrom(Tail(bs), <<>>)
    ELSE SplitFrom(Tail(bs), Append(cur, Head(bs)))

Split(bs) == SplitFrom(bs, <<>>)

\* fmt.Sprintf("%s:%s", name, version)
CursorOf(n, v) == Bytes(n) \o <<Colon>> \o Bytes(v)

\* strings.ToLower and strings.Contains, on ASCII bytes
ToLower(bs) == [i \in 1..Len(bs) |-> IF bs[i] >= 65 /\ bs[i] <= 90 THEN bs[i] + 32 ELSE bs[i]]
Contains(bs, sub) ==
    \E k \in 0..(Len(bs) - Len(sub)) : \A i \in 1..Len(sub) : bs[k + i] = sub[i]

\* ServerFilter: every field a pointer, nil when the filter does not use it.
ServerFilter(n, v, latest, sub, since, url) ==
    [Name |-> n, Version |-> v, IsLatest |-> latest, SubstringName |-> sub,
     UpdatedSince |-> since, RemoteURL |-> url]

\* Lines 253-281: what the filter does with one record: "skip" (continue),
\* "take", or "panic" (record.Value.Remotes read through a nil Value).
FilterStep(r, filter) ==
    IF filter = Nil THEN "take"
    ELSE LET f == Deref(filter) IN
         IF f.Name # Nil /\ r.ServerName # Deref(f.Name) THEN "skip"
         ELSE IF f.Version # Nil /\ r.Version # Deref(f.Version) THEN "skip"
         ELSE IF f.IsLatest # Nil /\ r.IsLatest # Deref(f.IsLatest) THEN "skip"
         ELSE IF f.SubstringName # Nil
                 /\ ~Contains(ToLower(Bytes(r.ServerName)),
                              ToLower(Bytes(Deref(f.SubstringName)))) THEN "skip"
         ELSE IF f.UpdatedSince # Nil /\ ~(r.UpdatedAt > Deref(f.UpdatedSince)) THEN "skip"
         ELSE IF f.RemoteURL # Nil
              THEN IF r.Value = Nil THEN "panic"
                   ELSE IF \E k \in 1..Len(Deref(r.Value).Remotes) :
                              Deref(r.Value).Remotes[k] = Deref(f.RemoteURL)
                        THEN "take" ELSE "skip"
         ELSE "take"

\* Lines 249-298: the scan from 0-based index i, results collected so far.
RECURSIVE ScanFrom(_, _, _, _, _)
ScanFrom(servers_, filter, limit, i, results) ==
    IF i >= Len(servers_) THEN [panic |-> FALSE, results |-> results]
    ELSE LET r == servers_[i + 1]
             step == FilterStep(r, filter)
         IN  IF step = "skip" THEN ScanFrom(servers_, filter, limit, i + 1, results)
             ELSE IF step = "panic" \/ r.Value = Nil
                  THEN [panic |-> TRUE, results |-> results]
             ELSE LET res == Append(results, ServerResponse(r))
                  IN  IF Len(res) >= limit THEN [panic |-> FALSE, results |-> res]
                      ELSE ScanFrom(servers_, filter, limit, i + 1, res)

StartIndexLoose(servers_, cursor) ==
    IF cursor = <<>> THEN 0
    ELSE LET parts == Split(cursor) IN
         IF Len(parts) < 2 THEN 0
         ELSE FirstIndex({i \in 1..Len(servers_) :
                            /\ Bytes(servers_[i].ServerName) = parts[1]
                            /\ Bytes(servers_[i].Version) = parts[2]})

\* Lines 235-246: where the scan starts for a cursor.
StartIndex(servers_, cursor) ==
    IF cursor = <<>> THEN 0
    ELSE LET parts == Split(cursor) IN
         IF Len(parts) # 2 THEN 0
         ELSE FirstIndex({i \in 1..Len(servers_) :
                            /\ Bytes(servers_[i].ServerName) = parts[1]
                            /\ Bytes(servers_[i].Version) = parts[2]})

ListServers(servers_, filter, cursor, limit) ==
    LET startIndex == StartIndex(servers_, cursor)
        scan == ScanFrom(servers_, filter, limit, startIndex, <<>>)
        n == Len(scan.results)
    IN  IF scan.panic THEN Panic
        ELSE IF n = limit /\ startIndex + n < Len(servers_)
             THEN LET lastRecord == servers_[startIndex + n]
                  IN  Result(NoErr, scan.results,
                             CursorOf(lastRecord.ServerName, lastRecord.Version))
             ELSE Result(NoErr, scan.results, <<>>)

GetServerByName(servers_, serverName) ==
    LET i == FirstIndex({k \in 1..Len(servers_) :
                           servers_[k].ServerName = serverName /\ servers_[k].IsLatest})
    IN  IF i = 0 THEN Result(ErrNotFound, <<>>, <<>>)
        ELSE IF servers_[i].Value = Nil THEN Panic
        ELSE Result(NoErr, <<ServerResponse(servers_[i])>>, <<>>)

GetServerByNameOnly(servers_, serverName, version) ==
    LET i == FirstIndex({k \in 1..Len(servers_) : servers_[k].ServerName = serverName})
    IN  IF i = 0 THEN Result(ErrNotFound, <<>>, <<>>)
        ELSE IF servers_[i].Value = Nil THEN Panic
        ELSE Result(NoErr, <<ServerResponse(servers_[i])>>, <<>>)

GetServerByNameAndVersion(servers_, serverName, version) ==
    LET i == FirstIndex({k \in 1..Len(servers_) :
                           servers_[k].ServerName = serverName
                           /\ servers_[k].Version = version})
    IN  IF i = 0 THEN Result(ErrNotFound, <<>>, <<>>)
        ELSE IF servers_[i].Value = Nil THEN Panic
        ELSE Result(NoErr, <<ServerResponse(servers_[i])>>, <<>>)

\* sort.Slice with less = results[i].PublishedAt.After(results[j].PublishedAt):
\* the insertion sort Go runs on a slice of at most 12 elements.
RECURSIVE InsertDesc(_, _)
InsertDesc(sorted, x) ==
    IF sorted = <<>> THEN <<x>>
    ELSE LET last == sorted[Len(sorted)] IN
         IF x.Meta.PublishedAt > last.Meta.PublishedAt
         THEN Append(InsertDesc(SubSeq(sorted, 1, Len(sorted) - 1), x), last)
         ELSE Append(sorted, x)

RECURSIVE InsertAsc(_, _)
InsertAsc(sorted, x) ==
    IF sorted = <<>> THEN <<x>>
    ELSE LET last == sorted[Len(sorted)] IN
         IF x.Meta.PublishedAt < last.Meta.PublishedAt
         THEN Append(InsertAsc(SubSeq(sorted, 1, Len(sorted) - 1), x), last)
         ELSE Append(sorted, x)

RECURSIVE SortByPublishedAtAsc(_)
SortByPublishedAtAsc(rs) ==
    IF rs = <<>> THEN <<>>
    ELSE InsertAsc(SortByPublishedAtAsc(SubSeq(rs, 1, Len(rs) - 1)), rs[Len(rs)])

RECURSIVE SortByPublishedAtDesc(_)
SortByPublishedAtDesc(rs) ==
    IF rs = <<>> THEN <<>>
    ELSE InsertDesc(SortByPublishedAtDesc(SubSeq(rs, 1, Len(rs) - 1)), rs[Len(rs)])

RECURSIVE SelectByName(_, _)
SelectByName(servers_, serverName) ==
    IF servers_ = <<>> THEN <<>>
    ELSE (IF Head(servers_).ServerName = serverName THEN <<Head(servers_)>> ELSE <<>>)
         \o SelectByName(Tail(servers_), serverName)

GetAllVersionsByServerName(servers_, serverName) ==
    LET rs == SelectByName(servers_, serverName) IN
    IF \E k \in 1..Len(rs) : rs[k].Value = Nil THEN Panic
    ELSE IF rs = <<>> THEN Result(ErrNotFound, <<>>, <<>>)
    ELSE Result(NoErr,
                SortByPublishedAtDesc([k \in 1..Len(rs) |-> ServerResponse(rs[k])]),
                <<>>)

CountServerVersions(servers_, serverName) == Len(SelectByName(servers_, serverName))

CheckVersionExists(servers_, serverName, version) ==
    \E k \in 1..Len(servers_) :
        servers_[k].ServerName = serverName /\ servers_[k].Version = version

(***************************************************************************)
(* State.                                                                  *)
(*   servers   db.data.Servers                                             *)
(*   file, tmp what db.filePath and db.filePath + ".tmp" hold              *)
(*   mu        db.mu: 0 when free, else the caller holding it for writing  *)
(*             (a read holds it only within its own step, except the one   *)
(*             reader of SpecReload, under which it is RLocked)            *)
(*   locks     db.locks: lock id -> 0 (unlocked) or the caller whose       *)
(*             Lock() returned                                             *)
(*   now       the clock time.Now() reads                                  *)
(*   pc, pend  per caller: where its write handler stands (idle, or inside *)
(*             save before WriteFile or before Rename) and what the        *)
(*             handler returns if save succeeds                            *)
(*   ret       the last return of a call: of which operation, which error  *)
(*   txpc, txName, txVersion, txLocks, txErr                               *)
(*             per caller: its InTransaction: the callback's position, the *)
(*             name and version it publishes, jsonTx.locks, and the error  *)
(*             the callback returns                                        *)
(*   faults    how many file operations have failed so far                 *)
(*   ls        a paginating client of ListServers: its filter, limit,      *)
(*             the cursor it holds and the pages it got                    *)
(*   sq        the SQS listener, its queue and the objects in S3           *)
(*   url       a call of ParseS3URL: its argument and what it returned     *)
(*   boot      main: the configuration and how far startup has got         *)
(*   inst      a second JSONFileDB of the process: its db.locks, and the   *)
(*             InTransaction of its caller (position, name, jsonTx.locks)  *)
(*   hist      history only: the names a publish of which was given up     *)
(*             after its unmark, and the officialMeta the caller of        *)
(*             SpecCreate passes to CreateServer, and the name and version *)
(*             the caller of SpecUpdate passes to the handler it calls     *)
(***************************************************************************)
VARIABLES servers, file, tmp, mu, locks, now, pc, pend, ret,
          txpc, txName, txVersion, txLocks, txErr, faults, ls,
          sq, url, boot, inst, hist

extVars == <<sq, url, boot, inst, hist>>
dbVars == <<servers, file, tmp, mu, now, faults>>
callVars == <<pc, pend, ret>>
txVars == <<txpc, txName, txVersion, txLocks, txErr>>
vars == <<servers, file, tmp, mu, locks, now, pc, pend, ret,
          txpc, txName, txVersion, txLocks, txErr, faults, ls,
          sq, url, boot, inst, hist>>

\* What a handler call returns: resp the response (nil beside an error).
Return(op, n, v, e, resp) ==
    [op |-> op, name |-> n, version |-> v, err |-> e, resp |-> resp]
NoReturn == Return("none", "", "", NoErr, Nil)

\* The last return any caller got: from which call, and the error.
Returned(r) == [op |-> r.op, err |-> r.err]

NoList == [filter |-> Nil, limit |-> 1, cursor |-> <<>>, pages |-> <<>>, done |-> TRUE]

\* NewJSONFileDB on a path that holds no file.
BaseInit ==
    /\ servers = <<>>
    /\ file = FileAbsent
    /\ tmp = FileAbsent
    /\ mu = 0
    /\ locks = [id \in {} |-> 0]
    /\ now = 0
    /\ pc = [p \in Procs |-> "idle"]
    /\ pend = [p \in Procs |-> NoReturn]
    /\ ret = Returned(NoReturn)
    /\ txpc = [p \in Procs |-> "none"]
    /\ txName = [p \in Procs |-> ""]
    /\ txVersion = [p \in Procs |-> ""]
    /\ txLocks = [p \in Procs |-> <<>>]
    /\ txErr = [p \in Procs |-> NoErr]
    /\ faults = 0
    /\ ls = NoList

\* Nothing but the backend runs: no listener, no call of ParseS3URL, main
\* not modelled, no second backend.
NoListener == [lpc |-> "off"]
NoURL == [arg |-> <<>>, done |-> TRUE]
NoBoot == [pc |-> "off"]
NoInstance == [locks |-> [id \in {} |-> 0], txpc |-> "none", txName |-> "", txLocks |-> <<>>]
NoHist == [aborted |-> {}, officialMeta |-> <<>>, key |-> <<>>]

ExtIdle ==
    /\ sq = NoListener
    /\ url = NoURL
    /\ boot = NoBoot
    /\ inst = NoInstance
    /\ hist = NoHist

Init == BaseInit /\ ExtIdle

(***************************************************************************)
(* The callback of a publish transaction, as the registry service runs it: *)
(* AcquirePublishLock, UnmarkAsLatest, CreateServer, each error returned   *)
(* at once.  CallbackAfter says where the callback goes when the handler   *)
(* it called returns e; a caller outside a transaction stays where it is.  *)
(***************************************************************************)
CallbackAfter(p, e) ==
    IF txpc[p] = "unmark" /\ e = NoErr
    THEN /\ txpc' = [txpc EXCEPT ![p] = "create"]
         /\ UNCHANGED txErr
    ELSE IF txpc[p] \in {"unmark", "create"}
    THEN /\ txpc' = [txpc EXCEPT ![p] = "return"]
         /\ txErr' = [txErr EXCEPT ![p] = e]
    ELSE UNCHANGED <<txpc, txErr>>

\* A handler returns r without having called save: db.mu is taken and given
\* back within the step.
ReturnNow(p, r) ==
    /\ ret' = Returned(r)
    /\ CallbackAfter(p, r.err)
    /\ UNCHANGED <<file, tmp, mu, locks, now, pc, pend, txName, txVersion, txLocks,
                   faults, ls, extVars>>

\* A handler has changed the dataset and enters save holding db.mu.
EnterSave(p, r) ==
    /\ mu' = p
    /\ pc' = [pc EXCEPT ![p] = "save_write"]
    /\ pend' = [pend EXCEPT ![p] = r]
    /\ UNCHANGED <<file, tmp, locks, now, ret, txVars, faults, ls, extVars>>

(***************************************************************************)
(* save (lines 102-115), after MarshalIndent: os.WriteFile to the ".tmp"   *)
(* sibling, then os.Rename over the target.  Either can fail; a failed     *)
(* WriteFile leaves a cut-off ".tmp".  CreateServer, UpdateServer and      *)
(* SetServerStatus wrap the error in ErrDatabase, UnmarkAsLatest returns   *)
(* it as it is.                                                            *)
(***************************************************************************)
SaveError(op) == IF op = "UnmarkAsLatest" THEN ErrIO ELSE ErrDatabase

SaveFailed(p) ==
    /\ faults < MaxFaults
    /\ faults' = faults + 1
    /\ mu' = 0
    /\ pc' = [pc EXCEPT ![p] = "idle"]
    /\ ret' = Returned([pend[p] EXCEPT !.err = SaveError(pend[p].op)])
    /\ pend' = [pend EXCEPT ![p] = NoReturn]
    /\ CallbackAfter(p, SaveError(pend[p].op))

SaveWriteFileInPlace(p) ==
    /\ pc[p] = "save_write"
    /\ \/ /\ file' = FileJSON(Marshal(servers))
          /\ pc' = [pc EXCEPT ![p] = "save_rename"]
          /\ UNCHANGED <<mu, pend, ret, txpc, txErr, faults>>
       \/ /\ file' = FilePartial
          /\ SaveFailed(p)
    /\ UNCHANGED <<servers, tmp, locks, now, txName, txVersion, txLocks, ls, extVars>>

SaveWriteFile(p) ==
    /\ pc[p] = "save_write"
    /\ \/ /\ tmp' = FileJSON(Marshal(servers))
          /\ pc' = [pc EXCEPT ![p] = "save_rename"]
          /\ UNCHANGED <<mu, pend, ret, txpc, txErr, faults>>
       \/ /\ tmp' = FilePartial
          /\ SaveFailed(p)
    /\ UNCHANGED <<servers, file, locks, now, txName, txVersion, txLocks, ls, extVars>>

SaveRename(p) ==
    /\ pc[p] = "save_rename"
    /\ \/ /\ file' = tmp
          /\ tmp' = FileAbsent
          /\ mu' = 0
          /\ pc' = [pc EXCEPT ![p] = "idle"]
          /\ ret' = Returned(pend[p])
          /\ pend' = [pend EXCEPT ![p] = NoReturn]
          /\ CallbackAfter(p, NoErr)
          /\ UNCHANGED faults
       \/ /\ SaveFailed(p)
          /\ UNCHANGED <<file, tmp>>
    /\ UNCHANGED <<servers, locks, now, txName, txVersion, txLocks, ls, extVars>>

(***************************************************************************)
(* The write handlers.  Each takes db.mu for writing (mu = 0), and either  *)
(* returns at once or changes the dataset and goes on into save.           *)
(***************************************************************************)
\* Lines 123-127: the scan for a record with the same name and version.
KeyExistsSkipFirst(servers_, n, v) ==
    \E k \in 2..Len(servers_) : servers_[k].ServerName = n /\ servers_[k].Version = v

KeyExists(servers_, n, v) ==
    \E k \in 1..Len(servers_) : servers_[k].ServerName = n /\ servers_[k].Version = v

DefaultMetaNotLatest(t) == RegistryExtensions(StatusActive, t, t, FALSE)

\* Lines 129-137: the extensions a nil officialMeta stands for.
DefaultMeta(t) == RegistryExtensions(StatusActive, t, t, TRUE)

CreateServer(p, serverJSON, officialMeta) ==
    /\ pc[p] = "idle"
    /\ mu = 0
    /\ IF KeyExists(servers, serverJSON.Name, serverJSON.Version)
       THEN /\ ReturnNow(p, Return("CreateServer", serverJSON.Name, serverJSON.Version,
                                   ErrAlreadyExists, Nil))
            /\ UNCHANGED servers
       ELSE LET meta == IF officialMeta = Nil THEN DefaultMeta(now)
                        ELSE Deref(officialMeta)
                record == ServerRecord(serverJSON.Name, serverJSON.Version,
                                       meta.Status, meta.PublishedAt, meta.UpdatedAt,
                                       meta.IsLatest, Some(serverJSON), Some(meta))
            IN  /\ Len(servers) < MaxRecords
                /\ servers' = Append(servers, record)
                /\ EnterSave(p, Return("CreateServer", serverJSON.Name,
                                       serverJSON.Version, NoErr,
                                       Some([Server |-> serverJSON, Meta |-> meta])))

IndexOfName(servers_, n, v) ==
    FirstIndex({k \in 1..Len(servers_) : servers_[k].ServerName = n})

\* The index of the record UpdateServer and SetServerStatus change; 0 if none.
IndexOf(servers_, n, v) ==
    FirstIndex({k \in 1..Len(servers_) :
                  servers_[k].ServerName = n /\ servers_[k].Version = v})

UpdateServer(p, serverName, version, serverJSON) ==
    /\ pc[p] = "idle"
    /\ mu = 0
    /\ LET i == IndexOf(servers, serverName, version) IN
       IF i = 0
       THEN /\ ReturnNow(p, Return("UpdateServer", serverName, version, ErrNotFound, Nil))
            /\ UNCHANGED servers
       ELSE LET r == [servers[i] EXCEPT !.Value = Some(serverJSON), !.UpdatedAt = now]
            IN  /\ servers' = [servers EXCEPT ![i] = r]
                /\ EnterSave(p, Return("UpdateServer", serverName, version, NoErr,
                                       Some(ServerResponse(r))))

SetServerStatus(p, serverName, version, status) ==
    /\ pc[p] = "idle"
    /\ mu = 0
    /\ LET i == IndexOf(servers, serverName, version) IN
       IF i = 0
       THEN /\ ReturnNow(p, Return("SetServerStatus", serverName, version,
                                   ErrNotFound, Nil))
            /\ UNCHANGED servers
       ELSE LET r == [servers[i] EXCEPT !.Status = status, !.UpdatedAt = now]
            IN  /\ servers' = [servers EXCEPT ![i] = r]
                /\ EnterSave(p, Return("SetServerStatus", serverName, version, NoErr,
                                       IF r.Value = Nil THEN Nil
                                       ELSE Some(ServerResponse(r))))

UnmarkedNothing(servers_, serverName) == servers_

UnmarkedFirst(servers_, serverName) ==
    [k \in 1..Len(servers_) |->
        IF k = FirstIndex({j \in 1..Len(servers_) :
                             servers_[j].ServerName = serverName /\ servers_[j].IsLatest})
        THEN [servers_[k] EXCEPT !.IsLatest = FALSE]
        ELSE servers_[k]]

\* Lines 431-437: IsLatest cleared on every record of the name.
Unmarked(servers_, serverName) ==
    [k \in 1..Len(servers_) |->
        IF servers_[k].ServerName = serverName /\ servers_[k].IsLatest
        THEN [servers_[k] EXCEPT !.IsLatest = FALSE]
        ELSE servers_[k]]

UnmarkAsLatest(p, serverName) ==
    /\ pc[p] = "idle"
    /\ mu = 0
    /\ LET found == \E k \in 1..Len(servers) :
                       servers[k].ServerName = serverName /\ servers[k].IsLatest
       IN  IF ~found
           THEN /\ ReturnNow(p, Return("UnmarkAsLatest", serverName, "", NoErr, Nil))
                /\ UNCHANGED servers
           ELSE /\ servers' = Unmarked(servers, serverName)
                /\ EnterSave(p, Return("UnmarkAsLatest", serverName, "", NoErr, Nil))

(***************************************************************************)
(* load (lines 75-92) and its two callers.  Reload keeps the dataset when  *)
(* the file cannot be read, is empty, or does not parse.                   *)
(***************************************************************************)
LoadOrEmpty(servers_, f) == IF f.kind = "json" THEN Unmarshal(f.doc) ELSE <<>>

Load(servers_, f) == IF f.kind = "json" THEN Unmarshal(f.doc) ELSE servers_

LoadError(f) ==
    IF f.kind = "absent" THEN "ENOENT"
    ELSE IF f.kind = "partial" THEN "unexpected end of JSON input"
    ELSE NoErr

ReloadUnlocked(p) ==
    /\ pc[p] = "idle"
    /\ txpc[p] = "none"
    /\ servers' = Load(servers, file)
    /\ ret' = Returned(Return("Reload", "", "", LoadError(file), Nil))
    /\ UNCHANGED <<file, tmp, mu, locks, now, pc, pend, txVars, faults, ls, extVars>>

\* Lines 95-99: Reload, under db.mu held for writing.
Reload(p) ==
    /\ pc[p] = "idle"
    /\ txpc[p] = "none"
    /\ mu = 0
    /\ servers' = Load(servers, file)
    /\ ret' = Returned(Return("Reload", "", "", LoadError(file), Nil))
    /\ UNCHANGED <<file, tmp, mu, locks, now, pc, pend, txVars, faults, ls, extVars>>

\* The process dies, at any point, and is started again: NewJSONFileDB
\* (lines 55-72) on what the path holds.  It fails, and the process does not
\* come up, when the file is there and does not parse.
CrashRestart ==
    /\ file.kind # "partial"
    /\ servers' = Load(<<>>, file)
    /\ mu' = 0
    /\ locks' = [id \in {} |-> 0]
    /\ pc' = [p \in Procs |-> "idle"]
    /\ pend' = [p \in Procs |-> NoReturn]
    /\ ret' = Returned(NoReturn)
    /\ txpc' = [p \in Procs |-> "none"]
    /\ txName' = [p \in Procs |-> ""]
    /\ txVersion' = [p \in Procs |-> ""]
    /\ txLocks' = [p \in Procs |-> <<>>]
    /\ txErr' = [p \in Procs |-> NoErr]
    /\ UNCHANGED <<file, tmp, now, faults, ls, extVars>>

\* Time passes.
Tick ==
    /\ now < MaxTime
    /\ now' = now + 1
    /\ UNCHANGED <<servers, file, tmp, mu, locks, callVars, txVars, faults, ls, extVars>>

(***************************************************************************)
(* Publish locks and transactions.                                         *)
(***************************************************************************)
\* Line 461: lock.Lock() returns only when the mutex of the id is unlocked;
\* a mutex not yet in the registry is created unlocked (lines 453-458).
LockAvailableAlways(id) == TRUE

LockAvailable(id) == IF id \in DOMAIN locks THEN locks[id] = 0 ELSE TRUE

AcquirePublishLock(p, serverName) ==
    LET lockID == LockID(serverName) IN
    /\ txpc[p] = "acquire"
    /\ LockAvailable(lockID)
    /\ locks' = [k \in DOMAIN locks \cup {lockID} |->
                    IF k = lockID THEN p ELSE locks[k]]
    /\ txLocks' = [txLocks EXCEPT ![p] = Append(@, lockID)]
    /\ txpc' = [txpc EXCEPT ![p] = "unmark"]
    /\ UNCHANGED <<dbVars, callVars, txName, txVersion, txErr, ls, extVars>>

\* Lines 473-485: InTransaction makes the jsonTx and calls fn.
InTransactionBegin(p, serverName, version) ==
    /\ txpc[p] = "none"
    /\ pc[p] = "idle"
    /\ txpc' = [txpc EXCEPT ![p] = "acquire"]
    /\ txName' = [txName EXCEPT ![p] = serverName]
    /\ txVersion' = [txVersion EXCEPT ![p] = version]
    /\ txLocks' = [txLocks EXCEPT ![p] = <<>>]
    /\ txErr' = [txErr EXCEPT ![p] = NoErr]
    /\ UNCHANGED <<dbVars, locks, callVars, ls, extVars>>

\* Lines 478-483: the deferred loop unlocks every mutex of tx.locks.
Held(p) == {txLocks[p][k] : k \in 1..Len(txLocks[p])}

DeferredOnCommitOnly(p) ==
    IF txErr[p] # NoErr THEN locks
    ELSE [k \in DOMAIN locks |-> IF k \in Held(p) THEN 0 ELSE locks[k]]

Deferred(p) == [k \in DOMAIN locks |-> IF k \in Held(p) THEN 0 ELSE locks[k]]

\* Lines 485-493 and the deferred release: fn has returned txErr[p], which
\* InTransaction returns; the jsonTx is dropped.
InTransactionEnd(p) ==
    /\ txpc[p] = "return"
    /\ locks' = Deferred(p)
    /\ ret' = Returned(Return("InTransaction", "", "", txErr[p], Nil))
    /\ txpc' = [txpc EXCEPT ![p] = "none"]
    /\ txName' = [txName EXCEPT ![p] = ""]
    /\ txVersion' = [txVersion EXCEPT ![p] = ""]
    /\ txLocks' = [txLocks EXCEPT ![p] = <<>>]
    /\ txErr' = [txErr EXCEPT ![p] = NoErr]
    /\ UNCHANGED <<dbVars, pc, pend, ls, extVars>>

\* The callback's two writes: unmark the name, then create the new version
\* as the latest, published now.
TxUnmarkAsLatest(p) ==
    /\ txpc[p] = "unmark"
    /\ UnmarkAsLatest(p, txName[p])

TxCreateServer(p) ==
    /\ txpc[p] = "create"
    /\ CreateServer(p, ServerJSON(txName[p], txVersion[p], "d1", <<>>),
                    Some(RegistryExtensions(StatusActive, now, now, TRUE)))

(***************************************************************************)
(* Spec: callers of the storage operations, one call at a time each, the   *)
(* calls of different callers interleaved; reloads; crashes and restarts.  *)
(* The clock is read and stands still here; it advances in SpecPublish.    *)
(***************************************************************************)
CallNames == {NameA, NameC}
UpdateKeys == {<<NameA, "1.0.0">>}

DoCreateServer ==
    \E p \in Procs, n \in CallNames, v \in Versions,
       m \in {Nil, Some(RegistryExtensions(StatusActive, now, now, FALSE)),
              Some(RegistryExtensions(StatusActive, now, now, TRUE))} :
        /\ txpc[p] = "none"
        /\ CreateServer(p, ServerJSON(n, v, "d1", <<>>), m)

DoUpdateServer ==
    \E p \in Procs, k \in UpdateKeys :
        /\ txpc[p] = "none"
        /\ UpdateServer(p, k[1], k[2], ServerJSON(k[1], k[2], "d2", <<>>))

DoSetServerStatus ==
    \E p \in Procs, k \in UpdateKeys :
        /\ txpc[p] = "none"
        /\ SetServerStatus(p, k[1], k[2], StatusDeprecated)

DoUnmarkAsLatest ==
    \E p \in Procs, n \in CallNames :
        /\ txpc[p] = "none"
        /\ UnmarkAsLatest(p, n)

DoSave == \E p \in Procs : SaveWriteFile(p) \/ SaveRename(p)

DoReload == \E p \in Procs : Reload(p)

Next ==
    \/ DoCreateServer
    \/ DoUpdateServer
    \/ DoSetServerStatus
    \/ DoUnmarkAsLatest
    \/ DoSave
    \/ DoReload
    \/ CrashRestart

Spec == Init /\ [][Next]_vars

(***************************************************************************)
(* SpecPublish: every caller publishes through the registry service's      *)
(* sequence, inside InTransaction.                                         *)
(***************************************************************************)
PublishKeys ==
    {<<NameA, "1.0.0">>, <<NameA, "1.1.0">>, <<NameB, "1.0.0">>, <<NameC, "1.0.0">>}

DoBegin == \E p \in Procs, k \in PublishKeys : InTransactionBegin(p, k[1], k[2])
DoAcquire == \E p \in Procs : AcquirePublishLock(p, txName[p])
DoTxUnmark == \E p \in Procs : TxUnmarkAsLatest(p)
DoTxCreate == \E p \in Procs : TxCreateServer(p)
DoEnd == \E p \in Procs : InTransactionEnd(p)

NextPublish ==
    \/ DoBegin
    \/ DoAcquire
    \/ DoTxUnmark
    \/ DoTxCreate
    \/ DoSave
    \/ DoEnd
    \/ Tick

SpecPublish == Init /\ [][NextPublish]_vars

(***************************************************************************)
(* SpecList: a client pages through ListServers on a dataset loaded from a *)
(* file written elsewhere (NewJSONFileDB on it), whose records may have a  *)
(* null "value"; it resubmits each cursor it gets until it gets none.      *)
(***************************************************************************)
ListKeys == {<<n, v>> : n \in {NameA, NameC}, v \in Versions}

ListValues(n, v) ==
    {Nil, Some(ServerJSON(n, v, "d1", <<>>)), Some(ServerJSON(n, v, "d1", <<RemoteU>>))}

ListRecords ==
    UNION {{ServerRecord(k[1], k[2], StatusActive, 0, 0, latest, value, Nil) :
              latest \in BOOLEAN, value \in ListValues(k[1], k[2])} : k \in ListKeys}

ListDatasets ==
    {d \in UNION {[1..k -> ListRecords] : k \in 0..MaxListLen} :
        \A i, j \in 1..Len(d) :
            i # j => (d[i].ServerName # d[j].ServerName \/ d[i].Version # d[j].Version)}

ListFilters ==
    {Nil,
     Some(ServerFilter(Some(NameA), Nil, Nil, Nil, Nil, Nil)),
     Some(ServerFilter(Nil, Nil, Some(TRUE), Nil, Nil, Nil)),
     Some(ServerFilter(Nil, Nil, Nil, Nil, Nil, Some(RemoteU)))}

InitList ==
    /\ servers \in ListDatasets
    /\ file = FileJSON(Marshal(servers))
    /\ tmp = FileAbsent
    /\ mu = 0
    /\ locks = [id \in {} |-> 0]
    /\ now = 0
    /\ pc = [p \in Procs |-> "idle"]
    /\ pend = [p \in Procs |-> NoReturn]
    /\ ret = Returned(NoReturn)
    /\ txpc = [p \in Procs |-> "none"]
    /\ txName = [p \in Procs |-> ""]
    /\ txVersion = [p \in Procs |-> ""]
    /\ txLocks = [p \in Procs |-> <<>>]
    /\ txErr = [p \in Procs |-> NoErr]
    /\ faults = 0
    /\ \E f \in ListFilters, n \in 1..MaxLimit :
          ls = [filter |-> f, limit |-> n, cursor |-> <<>>, pages |-> <<>>,
                done |-> FALSE]
    /\ ExtIdle

\* One call of ListServers, under db.mu's read lock, with the cursor held.
ListPage ==
    /\ ~ls.done
    /\ Len(ls.pages) < MaxPages
    /\ mu = 0
    /\ LET r == ListServers(servers, ls.filter, ls.cursor, ls.limit) IN
       ls' = [ls EXCEPT !.pages = Append(@, r), !.cursor = r.next,
                        !.done = r.panic \/ r.next = <<>>]
    /\ UNCHANGED <<servers, file, tmp, mu, locks, now, callVars, txVars, faults,
                   extVars>>

NextList == ListPage

SpecList == InitList /\ [][NextList]_vars

(***************************************************************************)
(* SpecFilter: one ListServers call whose limit exceeds the dataset, with   *)
(* filters that set any of the six fields, on datasets whose records differ *)
(* in name, version, IsLatest, UpdatedAt, remotes, and in having a payload. *)
(***************************************************************************)
FilterKeys == {<<NameA, "1.0.0">>, <<NameA, "1.1.0">>, <<NameC, "1.0.0">>}

FilterRecords ==
    UNION {{ServerRecord(k[1], k[2], StatusActive, 0, t, latest, value, Nil) :
              latest \in BOOLEAN, value \in ListValues(k[1], k[2]), t \in 0..MaxTime} :
           k \in FilterKeys}

FilterDatasets ==
    {d \in UNION {[1..k -> FilterRecords] : k \in 0..MaxRecords} :
        \A i, j \in 1..Len(d) :
            i # j => (d[i].ServerName # d[j].ServerName \/ d[i].Version # d[j].Version)}

FilterChoices ==
    {Some(ServerFilter(n, v, latest, sub, since, u)) :
        n \in {Nil, Some(NameA)}, v \in {Nil, Some("1.0.0")},
        latest \in {Nil, Some(TRUE), Some(FALSE)}, sub \in {Nil, Some("EXAMPLE")},
        since \in {Nil, Some(0)}, u \in {Nil, Some(RemoteU)}}

InitFilter ==
    /\ servers \in FilterDatasets
    /\ file = FileJSON(Marshal(servers))
    /\ tmp = FileAbsent
    /\ mu = 0
    /\ locks = [id \in {} |-> 0]
    /\ now = 0
    /\ pc = [p \in Procs |-> "idle"]
    /\ pend = [p \in Procs |-> NoReturn]
    /\ ret = Returned(NoReturn)
    /\ txpc = [p \in Procs |-> "none"]
    /\ txName = [p \in Procs |-> ""]
    /\ txVersion = [p \in Procs |-> ""]
    /\ txLocks = [p \in Procs |-> <<>>]
    /\ txErr = [p \in Procs |-> NoErr]
    /\ faults = 0
    /\ \E f \in FilterChoices :
          ls = [filter |-> f, limit |-> MaxRecords + 1, cursor |-> <<>>,
                pages |-> <<>>, done |-> FALSE]
    /\ ExtIdle

NextFilter == ListPage

SpecFilter == InitFilter /\ [][NextFilter]_vars

(***************************************************************************)
(* SpecColon: a client pages through ListServers, without a filter, on      *)
(* datasets of records with a payload, one of whose names holds a ':'.      *)
(***************************************************************************)
NameColon == "ns:srv"

ColonRecords ==
    {ServerRecord(n, "1.0.0", StatusActive, 0, 0, latest,
                  Some(ServerJSON(n, "1.0.0", "d1", <<>>)), Nil) :
        n \in {NameColon, NameA, NameC}, latest \in BOOLEAN}

ColonDatasets ==
    {d \in UNION {[1..k -> ColonRecords] : k \in 0..MaxListLen} :
        \A i, j \in 1..Len(d) : i # j => d[i].ServerName # d[j].ServerName}

InitColon ==
    /\ servers \in ColonDatasets
    /\ file = FileJSON(Marshal(servers))
    /\ tmp = FileAbsent
    /\ mu = 0
    /\ locks = [id \in {} |-> 0]
    /\ now = 0
    /\ pc = [p \in Procs |-> "idle"]
    /\ pend = [p \in Procs |-> NoReturn]
    /\ ret = Returned(NoReturn)
    /\ txpc = [p \in Procs |-> "none"]
    /\ txName = [p \in Procs |-> ""]
    /\ txVersion = [p \in Procs |-> ""]
    /\ txLocks = [p \in Procs |-> <<>>]
    /\ txErr = [p \in Procs |-> NoErr]
    /\ faults = 0
    /\ \E n \in 1..MaxLimit :
          ls = [filter |-> Nil, limit |-> n, cursor |-> <<>>, pages |-> <<>>,
                done |-> FALSE]
    /\ ExtIdle

NextColon == ListPage

SpecColon == InitColon /\ [][NextColon]_vars

(***************************************************************************)
(* SpecCursor: a client calls ListServers once with a cursor of its own    *)
(* making: the token of a key, which the dataset may or may not hold, a    *)
(* name without a colon, or a token with a third part.                     *)
(***************************************************************************)
Cursors ==
    {CursorOf(NameA, "1.0.0"),
     Bytes(NameA),
     CursorOf(NameA, "1.0.0") \o <<Colon>> \o Bytes("k")}

InitCursor ==
    /\ servers \in ListDatasets
    /\ file = FileJSON(Marshal(servers))
    /\ tmp = FileAbsent
    /\ mu = 0
    /\ locks = [id \in {} |-> 0]
    /\ now = 0
    /\ pc = [p \in Procs |-> "idle"]
    /\ pend = [p \in Procs |-> NoReturn]
    /\ ret = Returned(NoReturn)
    /\ txpc = [p \in Procs |-> "none"]
    /\ txName = [p \in Procs |-> ""]
    /\ txVersion = [p \in Procs |-> ""]
    /\ txLocks = [p \in Procs |-> <<>>]
    /\ txErr = [p \in Procs |-> NoErr]
    /\ faults = 0
    /\ \E f \in ListFilters, n \in 1..MaxLimit, c \in Cursors :
          ls = [filter |-> f, limit |-> n, cursor |-> c, pages |-> <<>>, done |-> FALSE]
    /\ ExtIdle

\* One call of ListServers with the client's cursor, which it keeps.
CursorCall ==
    /\ ~ls.done
    /\ mu = 0
    /\ ls' = [ls EXCEPT
                !.pages = Append(@, ListServers(servers, ls.filter, ls.cursor, ls.limit)),
                !.done = TRUE]
    /\ UNCHANGED <<servers, file, tmp, mu, locks, now, callVars, txVars, faults,
                   extVars>>

NextCursor == CursorCall

SpecCursor == InitCursor /\ [][NextCursor]_vars

(***************************************************************************)
(* ParseS3URL (internal/aws/s3.go), on the bytes of its argument.  A       *)
(* result is [bucket, key, err].                                           *)
(***************************************************************************)
Parsed(bucket, key) == [bucket |-> bucket, key |-> key, err |-> NoErr]
ParseError(e) == [bucket |-> <<>>, key |-> <<>>, err |-> e]

Slash == 47

\* s[:n], s[len(s)-n:] and s[i:] of a Go string (i counted from 0)
Prefix(bs, n) == SubSeq(bs, 1, n)
Suffix(bs, n) == SubSeq(bs, Len(bs) - n + 1, Len(bs))
From(bs, i) == SubSeq(bs, i + 1, Len(bs))

\* The index, from 0, of the first '/' of bs; -1 if it has none.
IndexSlash(bs) ==
    LET S == {i \in 1..Len(bs) : bs[i] = Slash}
    IN  IF S = {} THEN -1 ELSE FirstIndex(S) - 1

findSubstring(bs, substr) ==
    IF Len(substr) > Len(bs) THEN -1
    ELSE LET S == {i \in 0..(Len(bs) - Len(substr)) :
                     SubSeq(bs, i + 1, i + Len(substr)) = substr}
         IN  IF S = {} THEN -1 ELSE CHOOSE i \in S : \A j \in S : i <= j

parseS3URI(path) ==
    LET i == IndexSlash(path)
    IN  IF i = -1 THEN ParseError("invalid S3 URI: missing key path")
        ELSE Parsed(Prefix(path, i), From(path, i + 1))

\* [bucket, key, ok]
extractBucketAndKey(path) ==
    LET i == IndexSlash(path)
    IN  IF i = -1 THEN [bucket |-> <<>>, key |-> <<>>, ok |-> FALSE]
        ELSE IF From(path, i + 1) = <<>> THEN [bucket |-> <<>>, key |-> <<>>, ok |-> FALSE]
        ELSE [bucket |-> Prefix(path, i), key |-> From(path, i + 1), ok |-> TRUE]

parseVirtualHostedStyle(host, path) ==
    IF Len(host) > 17 /\ Suffix(host, 17) = Bytes(".s3.amazonaws.com")
    THEN [bucket |-> Prefix(host, Len(host) - 17), key |-> path, ok |-> TRUE]
    ELSE LET dotS3Idx == findSubstring(host, Bytes(".s3."))
         IN  IF dotS3Idx # -1 /\ Len(host) > 14
                 /\ Suffix(host, 14) = Bytes(".amazonaws.com")
             THEN [bucket |-> Prefix(host, dotS3Idx), key |-> path, ok |-> TRUE]
             ELSE [bucket |-> <<>>, key |-> <<>>, ok |-> FALSE]

parsePathStyle(host, path) ==
    IF host = Bytes("s3.amazonaws.com") THEN extractBucketAndKey(path)
    ELSE IF Len(host) >= 17 /\ Prefix(host, 3) = Bytes("s3.")
            /\ Suffix(host, 14) = Bytes(".amazonaws.com")
    THEN extractBucketAndKey(path)
    ELSE [bucket |-> <<>>, key |-> <<>>, ok |-> FALSE]

parseHTTPSS3URL(remaining) ==
    LET slashIdx == IndexSlash(remaining) IN
    IF slashIdx = -1 THEN ParseError("invalid S3 URL: missing object key")
    ELSE LET host == Prefix(remaining, slashIdx)
             path == From(remaining, slashIdx + 1)
             vh == parseVirtualHostedStyle(host, path)
             ps == parsePathStyle(host, path)
         IN  IF path = <<>> THEN ParseError("invalid S3 URL: missing object key")
             ELSE IF vh.ok THEN Parsed(vh.bucket, vh.key)
             ELSE IF ps.ok THEN Parsed(ps.bucket, ps.key)
             ELSE ParseError("invalid S3 URL: unrecognized S3 URL format")

ParseS3URL(u) ==
    IF Len(u) >= 5 /\ Prefix(u, 5) = Bytes("s3://") THEN parseS3URI(From(u, 5))
    ELSE IF Len(u) >= 8 /\ Prefix(u, 8) = Bytes("https://") THEN parseHTTPSS3URL(From(u, 8))
    ELSE ParseError("invalid S3 URL: must start with s3:// or https://")

(***************************************************************************)
(* SpecParse: one call of ParseS3URL on a reference of one of the shapes   *)
(* the documentation lists, made of a bucket, a key and a region, or on    *)
(* one of the references the tests expect to be turned down.               *)
(***************************************************************************)
Buckets == {"b", "my-bucket", "a.s3.b", "registry"}
Keys == {"k", "d/k.json", "registry.json"}
Regions == {"us-east-1", "eu-west-1"}
Shapes == {"s3", "virtual-region", "virtual", "path-region", "path"}

URLText(shape, b, k, r) ==
    CASE shape = "s3" -> Bytes("s3://") \o Bytes(b) \o Bytes("/") \o Bytes(k)
      [] shape = "virtual-region" ->
             Bytes("https://") \o Bytes(b) \o Bytes(".s3.") \o Bytes(r)
                 \o Bytes(".amazonaws.com") \o Bytes("/") \o Bytes(k)
      [] shape = "virtual" ->
             Bytes("https://") \o Bytes(b) \o Bytes(".s3.amazonaws.com")
                 \o Bytes("/") \o Bytes(k)
      [] shape = "path-region" ->
             Bytes("https://") \o Bytes("s3.") \o Bytes(r) \o Bytes(".amazonaws.com")
                 \o Bytes("/") \o Bytes(b) \o Bytes("/") \o Bytes(k)
      [] shape = "path" ->
             Bytes("https://") \o Bytes("s3.amazonaws.com") \o Bytes("/")
                 \o Bytes(b) \o Bytes("/") \o Bytes(k)

\* References of an accepted shape, with the bucket and key they are made of.
GoodURLs ==
    {[shape |-> sh, bucket |-> Bytes(b), key |-> Bytes(k), arg |-> URLText(sh, b, k, r)] :
        sh \in Shapes, b \in Buckets, k \in Keys, r \in Regions}

\* References of no accepted shape (s3_test.go, "should fail").
BadURLs ==
    {[shape |-> "none", bucket |-> <<>>, key |-> <<>>, arg |-> a] :
        a \in {Bytes(""),
               Bytes("https://"),
               Bytes("s3://"),
               Bytes("s3://") \o Bytes("b"),
               Bytes("http://") \o Bytes("b") \o Bytes(".s3.amazonaws.com")
                   \o Bytes("/") \o Bytes("k"),
               Bytes("https://") \o Bytes("example.com") \o Bytes("/")
                   \o Bytes("file.json"),
               Bytes("https://") \o Bytes("b") \o Bytes(".s3.amazonaws.com")
                   \o Bytes("/"),
               Bytes("https://") \o Bytes("s3.amazonaws.com") \o Bytes("/")
                   \o Bytes("b") \o Bytes("/"),
               Bytes("https://") \o Bytes("s3.") \o Bytes("us-east-1")
                   \o Bytes(".amazonaws.com") \o Bytes("/")}}

InitParse ==
    /\ BaseInit
    /\ sq = NoListener
    /\ boot = NoBoot
    /\ inst = NoInstance
    /\ hist = NoHist
    /\ \E i \in GoodURLs \cup BadURLs :
          url = [in |-> i, arg |-> i.arg, done |-> FALSE, res |-> ParseError(NoErr)]

ParseCall ==
    /\ ~url.done
    /\ url' = [url EXCEPT !.done = TRUE, !.res = ParseS3URL(url.arg)]
    /\ UNCHANGED <<servers, file, tmp, mu, locks, now, callVars, txVars, faults, ls,
                   sq, boot, inst, hist>>

NextParse == ParseCall

SpecParse == InitParse /\ [][NextParse]_vars

(***************************************************************************)
(* SpecHollow: one call of ParseS3URL on a reference of one of the five     *)
(* shapes whose bucket or key may be the empty string.                      *)
(***************************************************************************)
HollowURLs ==
    {[shape |-> sh, bucket |-> Bytes(b), key |-> Bytes(k), arg |-> URLText(sh, b, k, r)] :
        sh \in Shapes, b \in Buckets \cup {""}, k \in Keys \cup {""}, r \in Regions}

InitHollow ==
    /\ BaseInit
    /\ sq = NoListener
    /\ boot = NoBoot
    /\ inst = NoInstance
    /\ hist = NoHist
    /\ \E i \in HollowURLs :
          url = [in |-> i, arg |-> i.arg, done |-> FALSE, res |-> ParseError(NoErr)]

NextHollow == ParseCall

SpecHollow == InitHollow /\ [][NextHollow]_vars

(***************************************************************************)
(* The SQS listener (internal/aws/sqs.go) as main starts it: pollMessages  *)
(* in its goroutine, one step at a time, with the queue, the objects in S3 *)
(* and the callers of Stop and of the context's cancel around it.          *)
(*   sq.lpc    where pollMessages is: "select" at the top of the loop,     *)
(*             "receive" in ReceiveMessage, "parse" to "delete" in the     *)
(*             message batch[idx], "sleep" in time.Sleep, "exited"         *)
(*   sq.queue  each message: "unsent", "visible", "inflight" (received and *)
(*             hidden until its visibility timeout), "deleted"             *)
(*   sq.body   each message as json.Unmarshal into SQSMessage reads it     *)
(*   sq.env    each message as the producer of SpecEnvelope wrote it       *)
(*   sq.steps  what has succeeded so far for batch[idx] (history)          *)
(*   sq.fail   the last failure since the last receive: where, and why     *)
(***************************************************************************)
Msgs == 1..NMsgs

\* The objects in S3, by bucket and key: a dataset, a cut-off document, or
\* nothing (GetObject fails with NoSuchKey).
ObjectDataset ==
    <<ServerRecord(NameC, "1.0.0", StatusActive, 0, 0, TRUE,
                   Some(ServerJSON(NameC, "1.0.0", "d1", <<>>)),
                   Some(RegistryExtensions(StatusActive, 0, 0, TRUE)))>>

S3Object(bucket, key) ==
    IF bucket = Bytes("registry") /\ key = Bytes("registry.json")
    THEN FileJSON(Marshal(ObjectDataset))
    ELSE IF bucket = Bytes("b") /\ key = Bytes("k") THEN FilePartial
    ELSE FileAbsent

\* A message body: whether it is JSON, and its "s3_uri" ("" when absent).
Body(json, uri) == [json |-> json, s3_uri |-> uri]

Bodies ==
    {Body(FALSE, <<>>),
     Body(TRUE, <<>>),
     Body(TRUE, Bytes("s3://") \o Bytes("b")),
     Body(TRUE, URLText("s3", "registry", "registry.json", "us-east-1")),
     Body(TRUE, URLText("s3", "b", "k", "us-east-1")),
     Body(TRUE, URLText("s3", "my-bucket", "k", "us-east-1"))}

\* sqs.go calls ParseS3URI, which the package's s3.go names ParseS3URL.
ParseS3URI(u) == ParseS3URL(u)

\* Lines 153-166 of processMessage: the error, or the bucket and key.
ParseMessage(body) ==
    IF ~body.json THEN ParseError("failed to parse message body")
    ELSE IF body.s3_uri = <<>> THEN ParseError("message missing s3_uri field")
    ELSE LET r == ParseS3URI(body.s3_uri)
         IN  IF r.err # NoErr THEN ParseError("invalid S3 URI") ELSE r

NoFail == [at |-> "none", cause |-> "none"]
Fail(at, cause) == [at |-> at, cause |-> cause]
CtxCanceled == "context canceled"
Injected == "fault"

\* NewSQSListener, lines 55-61: the effective batch size.
EffectiveMaxMessages(n) == IF n = 0 THEN 1 ELSE IF n > 10 THEN 10 ELSE n

\* The JSON object a producer sent as a message: one member, key and value.
Envelope(key, ref) == [key |-> key, ref |-> ref]
NoEnvelope == Envelope("", <<>>)

Listener(maxMessages) ==
    [lpc |-> "select", queue |-> [m \in Msgs |-> "unsent"],
     body |-> [m \in Msgs |-> Body(FALSE, <<>>)],
     env |-> [m \in Msgs |-> NoEnvelope],
     batch |-> <<>>, idx |-> 0, steps |-> <<>>, fail |-> NoFail,
     cancelled |-> FALSE, stopped |-> FALSE, fails |-> 0,
     maxMessages |-> maxMessages]

\* Start has been called on a listener for a backend on an empty path.
InitSync ==
    /\ BaseInit
    /\ \E n \in 0..MaxBatch : sq = Listener(EffectiveMaxMessages(n))
    /\ url = NoURL
    /\ boot = NoBoot
    /\ inst = NoInstance
    /\ hist = NoHist

syncFrame == <<locks, now, callVars, txVars, faults, ls, url, boot, inst, hist>>

Current == sq.batch[sq.idx]

\* The for loop of receiveAndProcessMessages goes on to the next message of
\* the batch, or the call returns nil and pollMessages is at its select.
Advance(s) ==
    IF s.idx < Len(s.batch)
    THEN [s EXCEPT !.lpc = "parse", !.idx = @ + 1, !.steps = <<>>]
    ELSE [s EXCEPT !.lpc = "select", !.batch = <<>>, !.idx = 0, !.steps = <<>>]

AfterFailureDeletes(s, at, cause) ==
    [s EXCEPT !.lpc = "delete", !.fail = Fail(at, cause)]

AfterFailureReturns(s, at, cause) ==
    [s EXCEPT !.lpc = "sleep", !.fail = Fail(at, cause),
              !.batch = <<>>, !.idx = 0, !.steps = <<>>]

\* Lines 133-137: processMessage returned an error: log it and continue.
AfterFailure(s, at, cause) == Advance([s EXCEPT !.fail = Fail(at, cause)])

\* An SDK or file call fails for a reason of its own.
MayFail(s) == s.fails < MaxSyncFaults
Failing(s) == [s EXCEPT !.fails = @ + 1]

SelectDoneOnCancelOnly(s) == s.cancelled

\* Lines 99-105: a case of the select is ready.
SelectDone(s) == s.cancelled \/ s.stopped

\* Lines 98-108: the select at the top of the loop.
Select ==
    /\ sq.lpc = "select"
    /\ sq' = IF SelectDone(sq) THEN [sq EXCEPT !.lpc = "exited"]
             ELSE [sq EXCEPT !.lpc = "receive", !.fail = NoFail]
    /\ UNCHANGED <<servers, file, tmp, mu, syncFrame>>

\* The batches ReceiveMessage may return: up to max visible messages.
Batches(s) ==
    {b \in UNION {[1..k -> Msgs] : k \in 0..s.maxMessages} :
        /\ \A i \in 1..Len(b) : s.queue[b[i]] = "visible"
        /\ \A i, j \in 1..Len(b) : i < j => b[i] < b[j]}

\* Lines 119-129 and 108-112: ReceiveMessage returns; an error sends
\* pollMessages to its Sleep.
Receive ==
    /\ sq.lpc = "receive"
    /\ \/ /\ ~sq.cancelled
          /\ \E b \in Batches(sq) :
                sq' = IF b = <<>> THEN [sq EXCEPT !.lpc = "select"]
                      ELSE [sq EXCEPT !.lpc = "parse", !.batch = b, !.idx = 1,
                                      !.steps = <<>>,
                                      !.queue = [m \in Msgs |->
                                          IF \E i \in 1..Len(b) : b[i] = m
                                          THEN "inflight" ELSE @[m]]]
       \/ /\ sq.cancelled
          /\ sq' = [sq EXCEPT !.lpc = "sleep", !.fail = Fail("receive", CtxCanceled)]
       \/ /\ ~sq.cancelled
          /\ MayFail(sq)
          /\ sq' = Failing([sq EXCEPT !.lpc = "sleep", !.fail = Fail("receive", Injected)])
    /\ UNCHANGED <<servers, file, tmp, mu, syncFrame>>

\* Line 111: the Sleep is over.
Sleep ==
    /\ sq.lpc = "sleep"
    /\ sq' = [sq EXCEPT !.lpc = "select"]
    /\ UNCHANGED <<servers, file, tmp, mu, syncFrame>>

\* Lines 153-166: the body is parsed.
Parse ==
    /\ sq.lpc = "parse"
    /\ sq' = IF ParseMessage(sq.body[Current]).err # NoErr
             THEN AfterFailure(sq, "parse", ParseMessage(sq.body[Current]).err)
             ELSE [sq EXCEPT !.lpc = "get", !.steps = <<"parse">>]
    /\ UNCHANGED <<servers, file, tmp, mu, syncFrame>>

Target == ParseMessage(sq.body[Current])

\* s3.go lines 41-47: GetObject, with the listener's context.
Get ==
    /\ sq.lpc = "get"
    /\ \/ /\ sq.cancelled
          /\ sq' = AfterFailure(sq, "get", CtxCanceled)
       \/ /\ ~sq.cancelled
          /\ S3Object(Target.bucket, Target.key) = FileAbsent
          /\ sq' = AfterFailure(sq, "get", "NoSuchKey")
       \/ /\ ~sq.cancelled
          /\ S3Object(Target.bucket, Target.key) # FileAbsent
          /\ sq' = [sq EXCEPT !.lpc = "create"]
       \/ /\ ~sq.cancelled
          /\ MayFail(sq)
          /\ sq' = Failing(AfterFailure(sq, "get", Injected))
    /\ UNCHANGED <<servers, file, tmp, mu, syncFrame>>

\* s3.go lines 51-61: the directory, and os.Create of localPath + ".tmp".
Create ==
    /\ sq.lpc = "create"
    /\ \/ /\ tmp' = FileEmpty
          /\ sq' = [sq EXCEPT !.lpc = "copy"]
       \/ /\ MayFail(sq)
          /\ tmp' = tmp
          /\ sq' = Failing(AfterFailure(sq, "create", Injected))
    /\ UNCHANGED <<servers, file, mu, syncFrame>>

CopyLeavesTemp ==
    /\ sq.lpc = "copy"
    /\ \/ /\ tmp' = S3Object(Target.bucket, Target.key)
          /\ sq' = [sq EXCEPT !.lpc = "rename"]
       \/ /\ sq.cancelled
          /\ tmp' = FilePartial
          /\ sq' = AfterFailure(sq, "copy", CtxCanceled)
       \/ /\ MayFail(sq)
          /\ tmp' = FilePartial
          /\ sq' = Failing(AfterFailure(sq, "copy", Injected))
    /\ UNCHANGED <<servers, file, mu, syncFrame>>

\* s3.go lines 65-75: io.Copy of the body, which reads under the listener's
\* context, and Close; on an error the temporary file is removed.
Copy ==
    /\ sq.lpc = "copy"
    /\ \/ /\ tmp' = S3Object(Target.bucket, Target.key)
          /\ sq' = [sq EXCEPT !.lpc = "rename"]
       \/ /\ sq.cancelled
          /\ tmp' = FileAbsent
          /\ sq' = AfterFailure(sq, "copy", CtxCanceled)
       \/ /\ MayFail(sq)
          /\ tmp' = FileAbsent
          /\ sq' = Failing(AfterFailure(sq, "copy", Injected))
    /\ UNCHANGED <<servers, file, mu, syncFrame>>

\* s3.go lines 78-81: os.Rename over the target.
Rename ==
    /\ sq.lpc = "rename"
    /\ \/ /\ file' = tmp
          /\ tmp' = FileAbsent
          /\ sq' = [sq EXCEPT !.lpc = "reload", !.steps = Append(@, "download")]
       \/ /\ MayFail(sq)
          /\ file' = file
          /\ tmp' = FileAbsent
          /\ sq' = Failing(AfterFailure(sq, "rename", Injected))
    /\ UNCHANGED <<servers, mu, syncFrame>>

\* sqs.go lines 176-182: the callback, jsonDB.Reload, under db.mu.
ReloadCallback ==
    /\ sq.lpc = "reload"
    /\ mu = 0
    /\ servers' = Load(servers, file)
    /\ sq' = IF LoadError(file) # NoErr
             THEN AfterFailure(sq, "reload", LoadError(file))
             ELSE [sq EXCEPT !.lpc = "delete", !.steps = Append(@, "reload")]
    /\ UNCHANGED <<file, tmp, mu, syncFrame>>

\* Lines 140-142 and 188-199: DeleteMessage; an error is logged.
Delete ==
    /\ sq.lpc = "delete"
    /\ \/ /\ ~sq.cancelled
          /\ sq' = Advance([sq EXCEPT !.queue[Current] = "deleted"])
       \/ /\ sq.cancelled
          /\ sq' = Advance([sq EXCEPT !.fail = Fail("delete", CtxCanceled)])
       \/ /\ ~sq.cancelled
          /\ MayFail(sq)
          /\ sq' = Failing(Advance([sq EXCEPT !.fail = Fail("delete", Injected)]))
    /\ UNCHANGED <<servers, file, tmp, mu, syncFrame>>

ListenerStep ==
    \/ Select
    \/ Receive
    \/ Sleep
    \/ Parse
    \/ Get
    \/ Create
    \/ Copy
    \/ Rename
    \/ ReloadCallback
    \/ Delete

\* Lines 91-94: Stop closes stopChan (main calls it once, on a signal).
Stop ==
    /\ sq.lpc # "off"
    /\ ~sq.stopped
    /\ sq' = [sq EXCEPT !.stopped = TRUE]
    /\ UNCHANGED <<servers, file, tmp, mu, syncFrame>>

\* The context given to Start is cancelled.
Cancel ==
    /\ sq.lpc # "off"
    /\ ~sq.cancelled
    /\ sq' = [sq EXCEPT !.cancelled = TRUE]
    /\ UNCHANGED <<servers, file, tmp, mu, syncFrame>>

\* A producer sends a message.
Send ==
    /\ \E m \in Msgs, b \in Bodies :
          /\ sq.queue[m] = "unsent"
          /\ \A k \in Msgs : k < m => sq.queue[k] # "unsent"
          /\ sq' = [sq EXCEPT !.queue[m] = "visible", !.body[m] = b]
    /\ UNCHANGED <<servers, file, tmp, mu, syncFrame>>

\* The visibility timeout of a received message that was not deleted runs
\* out once its batch is done with: the queue delivers it again.
Redeliver ==
    /\ \E m \in Msgs :
          /\ sq.queue[m] = "inflight"
          /\ \A i \in 1..Len(sq.batch) : sq.batch[i] # m
          /\ sq' = [sq EXCEPT !.queue[m] = "visible"]
    /\ UNCHANGED <<servers, file, tmp, mu, syncFrame>>

NextSync ==
    \/ ListenerStep
    \/ Stop
    \/ Cancel
    \/ Send
    \/ Redeliver

SpecSync == InitSync /\ [][NextSync]_vars

\* pollMessages runs in a goroutine of its own: it takes its next step.
SpecSyncLive == SpecSync /\ WF_vars(ListenerStep)

(***************************************************************************)
(* SpecEnvelope: the listener as main configures it (one message a         *)
(* receive), and a producer whose messages are JSON objects with one       *)
(* member: a key, and a reference to the dataset object in some shape.     *)
(***************************************************************************)
EnvelopeKeys == {"location", "s3_uri", "s3_url"}

EnvelopeRefs ==
    {URLText(sh, "registry", "registry.json", "us-east-1") : sh \in Shapes}
    \cup {<<>>,
          Bytes("s3://") \o Bytes("b"),
          Bytes("https://") \o Bytes("example.com") \o Bytes("/") \o Bytes("file.json")}

\* Lines 28-31 and 153-156: json.Unmarshal into SQSMessage fills S3URI from
\* the member "s3_uri" and ignores every other member.
UnmarshalMessage(env) == Body(TRUE, IF env.key = "s3_uri" THEN env.ref ELSE <<>>)

InitEnvelope ==
    /\ BaseInit
    /\ sq = Listener(EffectiveMaxMessages(1))
    /\ url = NoURL
    /\ boot = NoBoot
    /\ inst = NoInstance
    /\ hist = NoHist

SendEnvelope ==
    /\ \E m \in Msgs, k \in EnvelopeKeys, r \in EnvelopeRefs :
          /\ sq.queue[m] = "unsent"
          /\ \A j \in Msgs : j < m => sq.queue[j] # "unsent"
          /\ sq' = [sq EXCEPT !.queue[m] = "visible",
                              !.env[m] = Envelope(k, r),
                              !.body[m] = UnmarshalMessage(Envelope(k, r))]
    /\ UNCHANGED <<servers, file, tmp, mu, syncFrame>>

NextEnvelope ==
    \/ ListenerStep
    \/ SendEnvelope
    \/ Redeliver

SpecEnvelope == InitEnvelope /\ [][NextEnvelope]_vars

(***************************************************************************)
(* SpecConfig: NewSQSListener called with a configuration whose batch size *)
(* and wait time are any numbers from below zero to above the maxima.      *)
(***************************************************************************)
MaxMessagesCap == 10
WaitTimeCap == 20

ListenerCfgs ==
    [MaxMessages : (0 - CfgSlack)..(MaxMessagesCap + CfgSlack),
     WaitTimeSeconds : (0 - CfgSlack)..(WaitTimeCap + CfgSlack)]

\* Lines 63-69: the effective wait time.
EffectiveWaitTimeSeconds(n) ==
    IF n = 0 THEN WaitTimeCap ELSE IF n > WaitTimeCap THEN WaitTimeCap ELSE n

InitConfig ==
    /\ BaseInit
    /\ \E c \in ListenerCfgs : sq = [lpc |-> "new", cfg |-> c]
    /\ url = NoURL
    /\ boot = NoBoot
    /\ inst = NoInstance
    /\ hist = NoHist

\* Lines 43-81: the listener NewSQSListener returns.
NewSQSListener ==
    /\ sq.lpc = "new"
    /\ sq' = Listener(EffectiveMaxMessages(sq.cfg.MaxMessages))
                @@ [waitTimeSeconds |-> EffectiveWaitTimeSeconds(sq.cfg.WaitTimeSeconds),
                    cfg |-> sq.cfg]
    /\ UNCHANGED <<servers, file, tmp, mu, syncFrame>>

NextConfig == NewSQSListener

SpecConfig == InitConfig /\ [][NextConfig]_vars

(***************************************************************************)
(* main (cmd/registry): the startup sequence, from the configuration to    *)
(* the wait for a signal.  boot.log is the set of lines main has logged,   *)
(* boot.db the backend it holds, and sq the listener it created, if any.   *)
(***************************************************************************)
DatabaseTypes == {"jsonfile", "postgres", "mysql"}
QueueURLs == {"", "https://sqs/q"}
SeedSources == {"", "data/seed.json"}

Cfgs ==
    [DatabaseType : DatabaseTypes, SQSEnabled : BOOLEAN,
     SQSQueueURL : QueueURLs, SeedFrom : SeedSources]

LogNoQueueURL == "SQS is enabled but SQS_QUEUE_URL is not configured"
LogNotJSONFile == "SQS listener can only be used with JSON file database"
LogListenerFailed == "Failed to initialize SQS listener"
LogListenerStarted == "SQS listener started successfully"
LogInvalidType == "Invalid database type"
LogDBFailed == "Failed to initialize database"
LogSeedFailed == "Failed to import seed data"
LogMetricsFailed == "Failed to initialize metrics"

Booting(cfg) == [pc |-> "db", cfg |-> cfg, db |-> "none", log |-> {}]

InitMain ==
    /\ BaseInit
    /\ \E cfg \in Cfgs : boot = Booting(cfg)
    /\ sq = NoListener
    /\ url = NoURL
    /\ inst = NoInstance
    /\ hist = NoHist

mainFrame == <<servers, file, tmp, mu, locks, now, callVars, txVars, faults, ls,
               url, inst, hist>>

Logged(b, line) == [b EXCEPT !.log = @ \cup {line}]

\* Lines 68-87: the switch on cfg.DatabaseType.
ConnectDatabase ==
    /\ boot.pc = "db"
    /\ IF boot.cfg.DatabaseType \in {"jsonfile", "postgres"}
       THEN \/ boot' = [boot EXCEPT !.pc = "seed", !.db = boot.cfg.DatabaseType]
            \/ boot' = [Logged(boot, LogDBFailed) EXCEPT !.pc = "returned"]
       ELSE boot' = [Logged(boot, LogInvalidType) EXCEPT !.pc = "returned"]
    /\ UNCHANGED <<sq, mainFrame>>

\* Lines 101-110: the seed import, whose failure is logged only.
ImportSeed ==
    /\ boot.pc = "seed"
    /\ IF boot.cfg.SeedFrom = ""
       THEN boot' = [boot EXCEPT !.pc = "sqs"]
       ELSE \/ boot' = [boot EXCEPT !.pc = "sqs"]
            \/ boot' = [Logged(boot, LogSeedFailed) EXCEPT !.pc = "sqs"]
    /\ UNCHANGED <<sq, mainFrame>>

\* Line 113: the condition under which main looks at the listener at all.
ListenerWanted(cfg) == cfg.SQSEnabled /\ cfg.DatabaseType = "jsonfile"

\* Lines 113-141: the listener is created and started, or not.
InitListener ==
    /\ boot.pc = "sqs"
    /\ IF ~ListenerWanted(boot.cfg)
       THEN boot' = [boot EXCEPT !.pc = "metrics"] /\ sq' = sq
       ELSE IF boot.cfg.SQSQueueURL = ""
       THEN boot' = [Logged(boot, LogNoQueueURL) EXCEPT !.pc = "metrics"] /\ sq' = sq
       ELSE IF boot.db # "jsonfile"
       THEN boot' = [Logged(boot, LogNotJSONFile) EXCEPT !.pc = "metrics"] /\ sq' = sq
       ELSE \/ /\ boot' = [Logged(boot, LogListenerFailed) EXCEPT !.pc = "metrics"]
               /\ sq' = sq
            \/ /\ boot' = [Logged(boot, LogListenerStarted) EXCEPT !.pc = "metrics"]
               /\ sq' = Listener(EffectiveMaxMessages(1))
    /\ UNCHANGED mainFrame

\* Lines 143-147: telemetry, whose failure ends main.
InitMetrics ==
    /\ boot.pc = "metrics"
    /\ \/ boot' = [boot EXCEPT !.pc = "serving"]
       \/ boot' = [Logged(boot, LogMetricsFailed) EXCEPT !.pc = "returned"]
    /\ UNCHANGED <<sq, mainFrame>>

\* Lines 173-195: a signal arrives; the listener, if any, is stopped.
Shutdown ==
    /\ boot.pc = "serving"
    /\ boot' = [boot EXCEPT !.pc = "returned"]
    /\ sq' = IF sq # NoListener THEN [sq EXCEPT !.stopped = TRUE] ELSE sq
    /\ UNCHANGED mainFrame

NextMain ==
    \/ ConnectDatabase
    \/ ImportSeed
    \/ InitListener
    \/ InitMetrics
    \/ Shutdown

SpecMain == InitMain /\ [][NextMain]_vars

(***************************************************************************)
(* SpecInstances: two JSONFileDB values in one process (NewJSONFileDB      *)
(* called twice).  Each has the fields of its struct, db.locks among them. *)
(* A caller publishes on the first; another caller runs a transaction on   *)
(* the second (inst), whose callback's writes go to the second's own       *)
(* dataset and are not followed here.                                      *)
(***************************************************************************)
InstanceKeys == {<<NameA, "1.0.0">>, <<NameA, "1.1.0">>, <<NameC, "1.0.0">>}
InstanceNames == {NameA, NameC}
OtherCaller == 1

FirstBegin == \E k \in InstanceKeys : InTransactionBegin(1, k[1], k[2])

instFrame == <<servers, file, tmp, mu, locks, now, callVars, txVars, faults, ls,
               sq, url, boot, hist>>

\* Lines 473-477 on the second instance.
OtherBegin ==
    /\ inst.txpc = "none"
    /\ \E n \in InstanceNames :
          inst' = [inst EXCEPT !.txpc = "acquire", !.txName = n, !.txLocks = <<>>]
    /\ UNCHANGED instFrame

\* Line 449: the registry AcquirePublishLock looks the mutex up in is the
\* receiver's own field.
RegistryOf(i) == i.locks

\* Lines 447-469 on the second instance.
OtherAcquire ==
    LET lockID == LockID(inst.txName)
        reg == RegistryOf(inst) IN
    /\ inst.txpc = "acquire"
    /\ IF lockID \in DOMAIN reg THEN reg[lockID] = 0 ELSE TRUE
    /\ inst' = [inst EXCEPT
                  !.locks = [k \in DOMAIN inst.locks \cup {lockID} |->
                                IF k = lockID THEN OtherCaller ELSE inst.locks[k]],
                  !.txLocks = Append(@, lockID),
                  !.txpc = "callback"]
    /\ UNCHANGED instFrame

\* The callback of the second instance's transaction runs and returns.
OtherCallback ==
    /\ inst.txpc = "callback"
    /\ inst' = [inst EXCEPT !.txpc = "return"]
    /\ UNCHANGED instFrame

\* Lines 478-493 on the second instance.
OtherEnd ==
    /\ inst.txpc = "return"
    /\ inst' = [inst EXCEPT
                  !.locks = [k \in DOMAIN inst.locks |->
                                IF \E j \in 1..Len(inst.txLocks) : inst.txLocks[j] = k
                                THEN 0 ELSE inst.locks[k]],
                  !.txpc = "none", !.txName = "", !.txLocks = <<>>]
    /\ UNCHANGED instFrame

NextInstances ==
    \/ FirstBegin
    \/ DoAcquire
    \/ DoTxUnmark
    \/ DoTxCreate
    \/ DoSave
    \/ DoEnd
    \/ OtherBegin
    \/ OtherAcquire
    \/ OtherCallback
    \/ OtherEnd

SpecInstances == Init /\ [][NextInstances]_vars

(***************************************************************************)
(* SpecAbort: publishes whose callback may give up after UnmarkAsLatest    *)
(* has returned, before it calls CreateServer; crashes and restarts.       *)
(***************************************************************************)
ErrAborted == "publish aborted"

\* The callback returns an error of its own in place of calling
\* CreateServer.
TxAbort(p) ==
    /\ txpc[p] = "create"
    /\ pc[p] = "idle"
    /\ txpc' = [txpc EXCEPT ![p] = "return"]
    /\ txErr' = [txErr EXCEPT ![p] = ErrAborted]
    /\ hist' = IF \E k \in 1..Len(servers) : servers[k].ServerName = txName[p]
               THEN [hist EXCEPT !.aborted = @ \cup {txName[p]}] ELSE hist
    /\ UNCHANGED <<dbVars, locks, callVars, txName, txVersion, txLocks, ls,
                   sq, url, boot, inst>>

DoTxAbort == \E p \in Procs : TxAbort(p)

NextAbort ==
    \/ DoBegin
    \/ DoAcquire
    \/ DoTxUnmark
    \/ DoTxAbort
    \/ DoTxCreate
    \/ DoSave
    \/ DoEnd
    \/ CrashRestart

SpecAbort == Init /\ [][NextAbort]_vars

(***************************************************************************)
(* SpecCreate: one caller of CreateServer, who chooses the extensions it   *)
(* passes (nil, or a value of its own) before each call, while time        *)
(* passes.                                                                 *)
(***************************************************************************)
Creator == 1
CreateKeys == {<<NameA, "1.0.0">>, <<NameA, "1.1.0">>}

MetaChoices ==
    {Nil,
     Some(RegistryExtensions(StatusDeprecated, 0, MaxTime, FALSE)),
     Some(RegistryExtensions(StatusActive, MaxTime, 0, TRUE)),
     Some(RegistryExtensions(StatusDeprecated, 0, 0, TRUE))}

ChooseMeta ==
    /\ pc[Creator] = "idle"
    /\ \E m \in MetaChoices :
          /\ m # hist.officialMeta
          /\ hist' = [hist EXCEPT !.officialMeta = m]
    /\ UNCHANGED <<servers, file, tmp, mu, locks, now, callVars, txVars, faults, ls,
                   sq, url, boot, inst>>

CreateCall ==
    \E k \in CreateKeys :
        CreateServer(Creator, ServerJSON(k[1], k[2], "d1", <<>>), hist.officialMeta)

NextCreate ==
    \/ ChooseMeta
    \/ CreateCall
    \/ DoSave
    \/ Tick

SpecCreate == Init /\ [][NextCreate]_vars

(***************************************************************************)
(* SpecUpdate: one caller who creates records (extensions omitted) and     *)
(* calls UpdateServer, SetServerStatus and UnmarkAsLatest with a name and  *)
(* version it chooses before the call, present in the dataset or not,      *)
(* while time passes and saves may fail.                                   *)
(***************************************************************************)
CallKeys == {<<NameA, "1.0.0">>, <<NameA, "1.1.0">>, <<NameC, "1.0.0">>}

ChooseKey ==
    /\ pc[Creator] = "idle"
    /\ \E k \in CallKeys :
          /\ k # hist.key
          /\ hist' = [hist EXCEPT !.key = k]
    /\ UNCHANGED <<servers, file, tmp, mu, locks, now, callVars, txVars, faults, ls,
                   sq, url, boot, inst>>

UpdateCall ==
    /\ hist.key # <<>>
    /\ UpdateServer(Creator, hist.key[1], hist.key[2],
                    ServerJSON(hist.key[1], hist.key[2], "d2", <<>>))

StatusCall ==
    /\ hist.key # <<>>
    /\ SetServerStatus(Creator, hist.key[1], hist.key[2], StatusDeprecated)

UnmarkCall ==
    /\ hist.key # <<>>
    /\ UnmarkAsLatest(Creator, hist.key[1])

NextUpdate ==
    \/ ChooseKey
    \/ CreateCall
    \/ UpdateCall
    \/ StatusCall
    \/ UnmarkCall
    \/ DoSave
    \/ Tick

SpecUpdate == Init /\ [][NextUpdate]_vars

(***************************************************************************)
(* SpecGet: a client calls GetServerByName once, for a name of its         *)
(* choice, on a dataset loaded from a file written elsewhere.  The name is *)
(* hist.key[1]; what the call returned is the page ls holds.               *)
(***************************************************************************)
InitGet ==
    /\ servers \in ListDatasets
    /\ file = FileJSON(Marshal(servers))
    /\ tmp = FileAbsent
    /\ mu = 0
    /\ locks = [id \in {} |-> 0]
    /\ now = 0
    /\ pc = [p \in Procs |-> "idle"]
    /\ pend = [p \in Procs |-> NoReturn]
    /\ ret = Returned(NoReturn)
    /\ txpc = [p \in Procs |-> "none"]
    /\ txName = [p \in Procs |-> ""]
    /\ txVersion = [p \in Procs |-> ""]
    /\ txLocks = [p \in Procs |-> <<>>]
    /\ txErr = [p \in Procs |-> NoErr]
    /\ faults = 0
    /\ ls = [filter |-> Nil, limit |-> 1, cursor |-> <<>>, pages |-> <<>>, done |-> FALSE]
    /\ sq = NoListener
    /\ url = NoURL
    /\ boot = NoBoot
    /\ inst = NoInstance
    /\ \E n \in Names : hist = [NoHist EXCEPT !.key = <<n, "">>]

\* One call of GetServerByName, under db.mu's read lock.
GetCall ==
    /\ ~ls.done
    /\ mu = 0
    /\ ls' = [ls EXCEPT !.pages = Append(@, GetServerByName(servers, hist.key[1])),
                        !.done = TRUE]
    /\ UNCHANGED <<servers, file, tmp, mu, locks, now, callVars, txVars, faults,
                   extVars>>

NextGet == GetCall

SpecGet == InitGet /\ [][NextGet]_vars

(***************************************************************************)
(* SpecReload: ListServers step by step, one loop iteration at a time,     *)
(* beside callers that create records and Reload.  The backend was         *)
(* constructed on a path that held no file, and the object has been put at  *)
(* the path since.  db.mu is RLocked while the one reader holds it; ls      *)
(* carries the reader's locals, and in before the dataset as it was when    *)
(* the reader took the lock.                                                *)
(***************************************************************************)
RLocked == NProcs + 1

Reader ==
    [filter |-> Nil, limit |-> MaxLimit, cursor |-> <<>>, pages |-> <<>>,
     done |-> FALSE, rpc |-> "idle", startIndex |-> 0, i |-> 0, results |-> <<>>,
     before |-> <<>>]

InitReload ==
    /\ servers = <<>>
    /\ file = FileJSON(Marshal(ObjectDataset))
    /\ tmp = FileAbsent
    /\ mu = 0
    /\ locks = [id \in {} |-> 0]
    /\ now = 0
    /\ pc = [p \in Procs |-> "idle"]
    /\ pend = [p \in Procs |-> NoReturn]
    /\ ret = Returned(NoReturn)
    /\ txpc = [p \in Procs |-> "none"]
    /\ txName = [p \in Procs |-> ""]
    /\ txVersion = [p \in Procs |-> ""]
    /\ txLocks = [p \in Procs |-> <<>>]
    /\ txErr = [p \in Procs |-> NoErr]
    /\ faults = 0
    /\ ls = Reader
    /\ ExtIdle

readFrame == <<servers, file, tmp, locks, now, callVars, txVars, faults, extVars>>

\* Lines 228-246: db.mu.RLock(), and the start index for the cursor.
RLock ==
    /\ ls.rpc = "idle"
    /\ mu = 0
    /\ mu' = RLocked
    /\ ls' = [ls EXCEPT !.rpc = "scan", !.pages = <<>>, !.results = <<>>,
                        !.startIndex = StartIndex(servers, ls.cursor),
                        !.i = StartIndex(servers, ls.cursor),
                        !.before = servers]
    /\ UNCHANGED readFrame

\* Lines 249-298: the loop's test and one iteration.  A panic runs the
\* deferred RUnlock.
ScanStep ==
    /\ ls.rpc = "scan"
    /\ IF ls.i >= Len(servers)
       THEN ls' = [ls EXCEPT !.rpc = "cursor"] /\ mu' = mu
       ELSE LET r == servers[ls.i + 1]
                step == FilterStep(r, ls.filter)
            IN  IF step = "skip"
                THEN ls' = [ls EXCEPT !.i = @ + 1] /\ mu' = mu
                ELSE IF step = "panic" \/ r.Value = Nil
                THEN /\ ls' = [ls EXCEPT !.rpc = "idle", !.pages = <<Panic>>]
                     /\ mu' = 0
                ELSE LET res == Append(ls.results, ServerResponse(r)) IN
                     /\ ls' = IF Len(res) >= ls.limit
                              THEN [ls EXCEPT !.results = res, !.rpc = "cursor"]
                              ELSE [ls EXCEPT !.results = res, !.i = @ + 1]
                     /\ mu' = mu
    /\ UNCHANGED readFrame

\* Lines 300-307: the next cursor, the return, and the deferred RUnlock.
RUnlock ==
    /\ ls.rpc = "cursor"
    /\ LET n == Len(ls.results)
           next == IF n = ls.limit /\ ls.startIndex + n < Len(servers)
                   THEN CursorOf(servers[ls.startIndex + n].ServerName,
                                 servers[ls.startIndex + n].Version)
                   ELSE <<>>
       IN  ls' = [ls EXCEPT !.rpc = "idle",
                            !.pages = <<Result(NoErr, ls.results, next)>>]
    /\ mu' = 0
    /\ UNCHANGED readFrame

NextReload ==
    \/ DoCreateServer
    \/ DoSave
    \/ DoReload
    \/ RLock
    \/ ScanStep
    \/ RUnlock

SpecReload == InitReload /\ [][NextReload]_vars

(***************************************************************************)
(* SpecRepublish: version 1.0.0 of a name has been published and is its     *)
(* latest; callers publish version 1.1.0 through the service's sequence     *)
(* while a reader, who takes no publish lock, calls GetServerByName.  The   *)
(* reader keeps in ls what it got, and whether a publish to the name was in *)
(* progress when it read.                                                   *)
(***************************************************************************)
Published ==
    <<ServerRecord(NameA, "1.0.0", StatusActive, 0, 0, TRUE,
                   Some(ServerJSON(NameA, "1.0.0", "d1", <<>>)),
                   Some(RegistryExtensions(StatusActive, 0, 0, TRUE)))>>

InitRepublish ==
    /\ servers = Published
    /\ file = FileJSON(Marshal(Published))
    /\ tmp = FileAbsent
    /\ mu = 0
    /\ locks = [id \in {} |-> 0]
    /\ now = 0
    /\ pc = [p \in Procs |-> "idle"]
    /\ pend = [p \in Procs |-> NoReturn]
    /\ ret = Returned(NoReturn)
    /\ txpc = [p \in Procs |-> "none"]
    /\ txName = [p \in Procs |-> ""]
    /\ txVersion = [p \in Procs |-> ""]
    /\ txLocks = [p \in Procs |-> <<>>]
    /\ txErr = [p \in Procs |-> NoErr]
    /\ faults = 0
    /\ ls = [pages |-> <<>>, during |-> FALSE]
    /\ ExtIdle

\* A caller starts the publish of the new version of the name, which has a
\* latest version.
RepublishBegin ==
    /\ \E k \in 1..Len(servers) : servers[k].ServerName = NameA /\ servers[k].IsLatest
    /\ \E p \in Procs : InTransactionBegin(p, NameA, "1.1.0")

\* One call of GetServerByName, under db.mu's read lock.
ReadLatest ==
    /\ mu = 0
    /\ ls' = [pages |-> <<GetServerByName(servers, NameA)>>,
              during |-> \E p \in Procs : txpc[p] # "none" /\ txName[p] = NameA]
    /\ ls' # ls
    /\ UNCHANGED <<servers, file, tmp, mu, locks, now, callVars, txVars, faults,
                   extVars>>

NextRepublish ==
    \/ RepublishBegin
    \/ DoAcquire
    \/ DoTxUnmark
    \/ DoTxCreate
    \/ DoSave
    \/ DoEnd
    \/ ReadLatest

SpecRepublish == InitRepublish /\ [][NextRepublish]_vars

(***************************************************************************)
(* SpecShared: the listener downloads to the backend's path while a caller  *)
(* of the backend creates records.  save and DownloadFile both stage in     *)
(* the path's ".tmp" sibling, and the download takes no lock of the         *)
(* backend.  What os.Create opened is a file, not a path: sq.fd says where   *)
(* the file the download writes to is linked, "tmp", "file" once a save has *)
(* renamed it over the target, "unlinked" once another rename has replaced  *)
(* it there, "none" outside Create..Close.  Writing the object into a file  *)
(* that a save has written since the Create leaves the object, or the       *)
(* object followed by the rest of the longer dataset.                       *)
(***************************************************************************)
RegistryBody == Body(TRUE, URLText("s3", "registry", "registry.json", "us-east-1"))

InitShared ==
    /\ BaseInit
    /\ sq = [Listener(EffectiveMaxMessages(1)) EXCEPT
                !.queue = [m \in Msgs |-> "visible"],
                !.body = [m \in Msgs |-> RegistryBody]] @@ [fd |-> "none"]
    /\ url = NoURL
    /\ boot = NoBoot
    /\ inst = NoInstance
    /\ hist = NoHist

\* os.Rename has put another file, or this one, at the target.
Moved(s) ==
    IF s.fd = "tmp" THEN [s EXCEPT !.fd = "file"]
    ELSE IF s.fd = "file" THEN [s EXCEPT !.fd = "unlinked"]
    ELSE s

\* What a file holds after the object is written from its start.
Overlay(c, obj) == IF c = FileEmpty THEN {obj} ELSE {obj, FilePartial}

\* s3.go lines 51-61: os.Create truncates what the path holds, or makes it.
CreateShared ==
    /\ sq.lpc = "create"
    /\ \/ /\ tmp' = FileEmpty
          /\ sq' = [sq EXCEPT !.lpc = "copy", !.fd = "tmp"]
       \/ /\ MayFail(sq)
          /\ tmp' = tmp
          /\ sq' = Failing(AfterFailure(sq, "create", Injected))
    /\ UNCHANGED <<servers, file, mu, syncFrame>>

\* s3.go lines 65-75: io.Copy into the open file, and Close; on an error
\* os.Remove of the ".tmp" path, whatever it holds by then.
CopyShared ==
    /\ sq.lpc = "copy"
    /\ LET obj == S3Object(Target.bucket, Target.key) IN
       \/ /\ sq' = [sq EXCEPT !.lpc = "rename", !.fd = "none"]
          /\ IF sq.fd = "tmp" THEN tmp' \in Overlay(tmp, obj) /\ file' = file
             ELSE IF sq.fd = "file" THEN file' \in Overlay(file, obj) /\ tmp' = tmp
             ELSE file' = file /\ tmp' = tmp
       \/ /\ MayFail(sq)
          /\ sq' = Failing(AfterFailure([sq EXCEPT !.fd = "none"], "copy", Injected))
          /\ tmp' = FileAbsent
          /\ IF sq.fd = "file" THEN file' \in {file, FilePartial} ELSE file' = file
    /\ UNCHANGED <<servers, mu, syncFrame>>

\* s3.go lines 78-81: os.Rename of what the ".tmp" path holds, which fails
\* when it holds nothing; on an error os.Remove of the ".tmp" path.
RenameShared ==
    /\ sq.lpc = "rename"
    /\ IF tmp = FileAbsent
       THEN /\ sq' = AfterFailure(sq, "rename", "ENOENT")
            /\ UNCHANGED <<file, tmp>>
       ELSE \/ /\ file' = tmp
               /\ tmp' = FileAbsent
               /\ sq' = [sq EXCEPT !.lpc = "reload", !.steps = Append(@, "download")]
            \/ /\ MayFail(sq)
               /\ file' = file
               /\ tmp' = FileAbsent
               /\ sq' = Failing(AfterFailure(sq, "rename", Injected))
    /\ UNCHANGED <<servers, mu, syncFrame>>

\* save, line 114: os.Rename of what the ".tmp" path holds, which fails when
\* it holds nothing.
SaveRenameShared(p) ==
    /\ pc[p] = "save_rename"
    /\ IF tmp = FileAbsent
       THEN /\ mu' = 0
            /\ pc' = [pc EXCEPT ![p] = "idle"]
            /\ ret' = Returned([pend[p] EXCEPT !.err = SaveError(pend[p].op)])
            /\ pend' = [pend EXCEPT ![p] = NoReturn]
            /\ CallbackAfter(p, SaveError(pend[p].op))
            /\ UNCHANGED <<file, tmp, faults, sq>>
       ELSE \/ /\ file' = tmp
               /\ tmp' = FileAbsent
               /\ sq' = Moved(sq)
               /\ mu' = 0
               /\ pc' = [pc EXCEPT ![p] = "idle"]
               /\ ret' = Returned(pend[p])
               /\ pend' = [pend EXCEPT ![p] = NoReturn]
               /\ CallbackAfter(p, NoErr)
               /\ UNCHANGED faults
            \/ /\ SaveFailed(p)
               /\ UNCHANGED <<file, tmp, sq>>
    /\ UNCHANGED <<servers, locks, now, txName, txVersion, txLocks, ls,
                   url, boot, inst, hist>>

SaveShared == \E p \in Procs : SaveWriteFile(p) \/ SaveRenameShared(p)

NextShared ==
    \/ Select
    \/ Receive
    \/ Sleep
    \/ Parse
    \/ Get
    \/ CreateShared
    \/ CopyShared
    \/ RenameShared
    \/ ReloadCallback
    \/ Delete
    \/ Redeliver
    \/ CreateCall
    \/ SaveShared

SpecShared == InitShared /\ [][NextShared]_vars

(***************************************************************************)
(* SpecLocks: transactions whose callbacks acquire the publish locks of one *)
(* or two names, one after the other, and return.  ls.plan holds, for each  *)
(* caller, the names its callback has yet to lock after the one in txName.  *)
(* After AcquirePublishLock has returned the callback is where the publish  *)
(* callback is before its unmark; from there it goes on to its next name or *)
(* returns.                                                                 *)
(***************************************************************************)
LockNames == {NameA, NameB, NameC}

Plans == {<<n>> : n \in LockNames} \cup {<<n, m>> : n, m \in LockNames}

InitLocks ==
    /\ servers = <<>>
    /\ file = FileAbsent
    /\ tmp = FileAbsent
    /\ mu = 0
    /\ locks = [id \in {} |-> 0]
    /\ now = 0
    /\ pc = [p \in Procs |-> "idle"]
    /\ pend = [p \in Procs |-> NoReturn]
    /\ ret = Returned(NoReturn)
    /\ txpc = [p \in Procs |-> "none"]
    /\ txName = [p \in Procs |-> ""]
    /\ txVersion = [p \in Procs |-> ""]
    /\ txLocks = [p \in Procs |-> <<>>]
    /\ txErr = [p \in Procs |-> NoErr]
    /\ faults = 0
    /\ ls = [plan |-> [p \in Procs |-> <<>>]]
    /\ ExtIdle

lockFrame == <<dbVars, locks, callVars, extVars>>

\* InTransaction is called with a callback that locks the names of a plan.
LocksBeginWith(p, plans) ==
    /\ txpc[p] = "none"
    /\ \E plan \in plans :
          /\ ls' = [ls EXCEPT !.plan[p] = Tail(plan)]
          /\ txpc' = [txpc EXCEPT ![p] = "acquire"]
          /\ txName' = [txName EXCEPT ![p] = Head(plan)]
          /\ txLocks' = [txLocks EXCEPT ![p] = <<>>]
    /\ UNCHANGED <<lockFrame, txVersion, txErr>>

LocksBegin(p) == LocksBeginWith(p, Plans)

LocksAcquire(p) ==
    /\ AcquirePublishLock(p, txName[p])
    /\ ls' = ls

\* AcquirePublishLock has returned nil: the callback calls it for its next
\* name, or returns nil.
CallbackNext(p) ==
    /\ txpc[p] = "unmark"
    /\ IF ls.plan[p] = <<>>
       THEN /\ txpc' = [txpc EXCEPT ![p] = "return"]
            /\ UNCHANGED <<txName, ls>>
       ELSE /\ txpc' = [txpc EXCEPT ![p] = "acquire"]
            /\ txName' = [txName EXCEPT ![p] = Head(ls.plan[p])]
            /\ ls' = [ls EXCEPT !.plan[p] = Tail(@)]
    /\ UNCHANGED <<lockFrame, txVersion, txLocks, txErr>>

TxStep(p) == LocksAcquire(p) \/ CallbackNext(p) \/ InTransactionEnd(p)

NextLocks == \E p \in Procs : LocksBegin(p) \/ TxStep(p)

SpecLocks == InitLocks /\ [][NextLocks]_vars

\* Each caller is a goroutine that takes its next step when it can, and a
\* sync.Mutex hands the lock to a waiter that keeps waiting.
SpecLocksLive ==
    /\ SpecLocks
    /\ \A p \in Procs : WF_vars(CallbackNext(p) \/ InTransactionEnd(p))
    /\ \A p \in Procs : SF_vars(LocksAcquire(p))

(***************************************************************************)
(* SpecDetached: transactions whose callbacks lock one name, and callers    *)
(* that call AcquirePublishLock with a nil transaction handle.              *)
(***************************************************************************)
SinglePlans == {<<n>> : n \in LockNames}

\* Lines 447-469 with a tx that is not a *jsonTx: the type assertion fails
\* and the mutex, locked, is stored nowhere.
AcquireDetached(p, serverName) ==
    LET lockID == LockID(serverName) IN
    /\ txpc[p] = "none"
    /\ pc[p] = "idle"
    /\ LockAvailable(lockID)
    /\ locks' = [k \in DOMAIN locks \cup {lockID} |->
                    IF k = lockID THEN p ELSE locks[k]]
    /\ ret' = Returned(Return("AcquirePublishLock", serverName, "", NoErr, Nil))
    /\ UNCHANGED <<dbVars, pc, pend, txVars, ls, extVars>>

NextDetached ==
    \E p \in Procs :
        \/ LocksBeginWith(p, SinglePlans)
        \/ TxStep(p)
        \/ \E n \in LockNames : AcquireDetached(p, n)

SpecDetached == InitLocks /\ [][NextDetached]_vars

SpecDetachedLive ==
    /\ SpecDetached
    /\ \A p \in Procs : WF_vars(CallbackNext(p) \/ InTransactionEnd(p))
    /\ \A p \in Procs : SF_vars(LocksAcquire(p))

(***************************************************************************)
(* Properties.                                                             *)
(***************************************************************************)
LatestOf(servers_, n) ==
    {k \in 1..Len(servers_) : servers_[k].ServerName = n /\ servers_[k].IsLatest}

HasKey(servers_, n, v) ==
    \E k \in 1..Len(servers_) : servers_[k].ServerName = n /\ servers_[k].Version = v

RECURSIVE RecordsOf(_, _)
RecordsOf(servers_, n) ==
    IF servers_ = <<>> THEN <<>>
    ELSE (IF Head(servers_).ServerName = n THEN <<Head(servers_)>> ELSE <<>>)
         \o RecordsOf(Tail(servers_), n)

Reverse(q) == [i \in 1..Len(q) |-> q[Len(q) + 1 - i]]

\* C1: after any sequence of CreateServer and UnmarkAsLatest calls, at most
\* one record of each name has IsLatest = TRUE.
C1_AtMostOneLatest ==
    \A n \in Names : Cardinality(LatestOf(servers, n)) <= 1

\* C2: when every publisher runs lock, unmark, create-as-latest inside one
\* InTransaction, a reader that holds db.mu's read lock (so no writer holds
\* it) and lists the latest records of a name never gets more than one.
LatestFilter(n) == Some(ServerFilter(Some(n), Nil, Some(TRUE), Nil, Nil, Nil))

C2_ReaderSeesAtMostOneLatest ==
    mu = 0 =>
        \A n \in Names :
            LET r == ListServers(servers, LatestFilter(n), <<>>, MaxRecords + 1)
            IN  ~r.panic /\ Len(r.val) <= 1

\* A second publisher waits for the lock of a name while the first, holding
\* it, has unmarked the earlier latest version and is about to create.
C2_Witness ==
    \E p, q \in Procs :
        /\ p # q
        /\ txName[p] = txName[q]
        /\ txpc[p] = "create"
        /\ txpc[q] = "acquire"
        /\ mu = 0
        /\ \E k \in 1..Len(servers) :
              servers[k].ServerName = txName[p] /\ ~servers[k].IsLatest

\* AcquirePublishLock has returned to p's callback and p's InTransaction has
\* not completed.
InCallback(p) == txpc[p] \in {"unmark", "create", "return"}

\* q's AcquirePublishLock is waiting in lock.Lock().
Blocked(q) ==
    /\ txpc[q] = "acquire"
    /\ LockID(txName[q]) \in DOMAIN locks
    /\ locks[LockID(txName[q])] # 0

SameNameSerialised ==
    \A p, q \in Procs :
        (p # q /\ InCallback(p) /\ InCallback(q)) => txName[p] # txName[q]

\* C3 as claimed: two transactions that lock the same name are serialised,
\* and a transaction waits only for one that locked the same name.
C3_Original ==
    /\ SameNameSerialised
    /\ \A q \in Procs :
          Blocked(q) =>
              \E p \in Procs : p # q /\ InCallback(p) /\ txName[p] = txName[q]

\* C3, amended: two transactions that lock the same name are serialised, and
\* a transaction waits only for one that locked a name with the same 64-bit
\* FNV-1a hash (the same name, or another name that collides with it).
C3_SerialisedByHash ==
    /\ SameNameSerialised
    /\ \A q \in Procs :
          Blocked(q) =>
              \E p \in Procs :
                  /\ p # q
                  /\ InCallback(p)
                  /\ LockIDTable[txName[p]] = LockIDTable[txName[q]]

\* The second transaction on a name waits while the first is in its callback.
C3_Witness ==
    \E p, q \in Procs :
        p # q /\ InCallback(p) /\ Blocked(q) /\ txName[p] = txName[q]

NoDuplicates(q) == \A i, j \in 1..Len(q) : i # j => q[i] # q[j]

\* C4: when the callback returns, with an error or with nil, InTransaction
\* unlocks every lock the callback acquired, each once and no other, and
\* returns the callback's error; a caller outside InTransaction holds none.
C4_LocksReleasedOnReturn ==
    /\ [][\A p \in Procs :
            (txpc[p] = "return" /\ txpc'[p] = "none") =>
                /\ NoDuplicates(txLocks[p])
                /\ Len(txLocks[p]) >= 1
                /\ \A id \in DOMAIN locks :
                      IF \E k \in 1..Len(txLocks[p]) : txLocks[p][k] = id
                      THEN locks[id] = p /\ locks'[id] = 0
                      ELSE locks'[id] = locks[id]
                /\ ret' = [op |-> "InTransaction", err |-> txErr[p]]]_vars
    /\ [](\A p \in Procs :
            txpc[p] = "none" => \A id \in DOMAIN locks : locks[id] # p)

\* InTransaction has returned its callback's error and no lock is left held.
C4_Witness ==
    /\ ret = [op |-> "InTransaction", err |-> ErrAlreadyExists]
    /\ DOMAIN locks # {}
    /\ \A id \in DOMAIN locks : locks[id] = 0

UniqueKeys(servers_) ==
    \A i, j \in 1..Len(servers_) :
        i # j => (servers_[i].ServerName # servers_[j].ServerName
                  \/ servers_[i].Version # servers_[j].Version)

\* C5: a CreateServer that returns without saving returns ErrAlreadyExists
\* and leaves the dataset and the file as they were; a CreateServer adds its
\* record only when no record has that name and version; so no two records
\* ever share a name and version.
C5_DuplicateRejected ==
    /\ [](UniqueKeys(servers))
    /\ [][/\ (ret' # ret /\ ret'.op = "CreateServer" /\ pc' = pc) =>
               (ret'.err = ErrAlreadyExists /\ servers' = servers /\ file' = file)
          /\ \A p \in Procs :
               (pc[p] = "idle" /\ pc'[p] = "save_write"
                  /\ pend'[p].op = "CreateServer") =>
                   /\ ~HasKey(servers, pend'[p].name, pend'[p].version)
                   /\ Len(servers') = Len(servers) + 1
                   /\ SubSeq(servers', 1, Len(servers)) = servers
                   /\ servers'[Len(servers')].ServerName = pend'[p].name
                   /\ servers'[Len(servers')].Version = pend'[p].version]_vars

\* A duplicate CreateServer has just been turned down.
C5_Witness ==
    /\ ret = [op |-> "CreateServer", err |-> ErrAlreadyExists]
    /\ Len(servers) >= 1
    /\ file = FileJSON(Marshal(servers))

\* C6: when CreateServer returns without error, GetServerByNameAndVersion with
\* the payload's name and version returns the payload that was created.
C6_CreateThenGet ==
    [][\A p \in Procs :
         (pc[p] = "save_rename" /\ pc'[p] = "idle"
            /\ pend[p].op = "CreateServer"
            /\ ret' = [op |-> "CreateServer", err |-> NoErr]) =>
             LET created == Deref(pend[p].resp).Server
                 got == GetServerByNameAndVersion(servers', created.Name, created.Version)
             IN  /\ ~got.panic
                 /\ got.err = NoErr
                 /\ Len(got.val) = 1
                 /\ got.val[1].Server = created]_vars

\* A second version of a name has just been created.
C6_Witness ==
    /\ ret = [op |-> "CreateServer", err |-> NoErr]
    /\ Len(servers) = 2
    /\ servers[1].ServerName = servers[2].ServerName
    /\ \A p \in Procs : pc[p] = "idle"

AllValid(servers_) == \A k \in 1..Len(servers_) : servers_[k].Value # Nil

\* The responses for the records with a payload that the filter accepts, in
\* scan order.
RECURSIVE MatchesOf(_, _)
MatchesOf(servers_, filter) ==
    IF servers_ = <<>> THEN <<>>
    ELSE LET r == Head(servers_) IN
         (IF r.Value # Nil /\ FilterStep(r, filter) = "take"
          THEN <<ServerResponse(r)>> ELSE <<>>)
         \o MatchesOf(Tail(servers_), filter)

Min(a, b) == IF a <= b THEN a ELSE b

\* C7: on a dataset of valid records with M matches and a limit N < M, the
\* i-th page got by resubmitting each cursor holds matches (i-1)N+1 .. iN in
\* scan order, its cursor encodes the last record it returned, and the cursor
\* is empty exactly on the page that returns the last match.
C7_Pagination ==
    LET m == MatchesOf(servers, ls.filter)
        N == ls.limit
    IN  (AllValid(servers) /\ Len(m) > N) =>
            \A i \in 1..Len(ls.pages) :
                LET page == ls.pages[i]
                    lo == (i - 1) * N
                    hi == Min(i * N, Len(m))
                IN  /\ ~page.panic
                    /\ page.err = NoErr
                    /\ lo < Len(m)
                    /\ page.val = SubSeq(m, lo + 1, hi)
                    /\ page.next = IF hi < Len(m)
                                   THEN CursorOf(m[hi].Server.Name, m[hi].Server.Version)
                                   ELSE <<>>

\* C8: on a dataset with records whose payload is nil, every ListServers call
\* returns without error, and the first page holds the first matches among
\* the records that have a payload, up to the limit.
C8_NilPayloadSkipped ==
    LET m == MatchesOf(servers, ls.filter) IN
    (~AllValid(servers)) =>
        \A i \in 1..Len(ls.pages) :
            /\ ~ls.pages[i].panic
            /\ ls.pages[i].err = NoErr
            /\ i = 1 => ls.pages[i].val = SubSeq(m, 1, Min(ls.limit, Len(m)))

Increasing(rs) ==
    \A k \in 1..(Len(rs) - 1) : rs[k].PublishedAt < rs[k + 1].PublishedAt

\* C9: when a publish (lock, unmark, create as latest, in one InTransaction)
\* of version v of name n returns without error, GetServerByName(n) returns
\* v, every other version of n has IsLatest = FALSE, and, the publish times
\* of n's versions increasing, GetAllVersionsByServerName(n) returns them all,
\* the last published first; for a name with no records it returns
\* ErrNotFound.
C9_PublishThenRead ==
    /\ [][\A p \in Procs :
            (txpc[p] = "return" /\ txpc'[p] = "none" /\ txErr[p] = NoErr) =>
                LET n == txName[p]
                    v == txVersion[p]
                    rs == RecordsOf(servers', n)
                    got == GetServerByName(servers', n)
                    all == GetAllVersionsByServerName(servers', n)
                IN  /\ got.err = NoErr
                    /\ Len(got.val) = 1
                    /\ got.val[1].Server.Name = n
                    /\ got.val[1].Server.Version = v
                    /\ rs[Len(rs)].Version = v
                    /\ \A k \in 1..Len(rs) : rs[k].Version # v => ~rs[k].IsLatest
                    /\ Increasing(rs) =>
                          /\ all.err = NoErr
                          /\ all.val = Reverse([k \in 1..Len(rs) |-> ServerResponse(rs[k])])]_vars
    /\ [](\A n \in Names :
            RecordsOf(servers, n) = <<>> =>
                GetAllVersionsByServerName(servers, n) = Result(ErrNotFound, <<>>, <<>>))

\* The second version of a name has been published, later than the first.
C9_Witness ==
    /\ ret = [op |-> "InTransaction", err |-> NoErr]
    /\ \A p \in Procs : txpc[p] = "none"
    /\ Len(servers) = 2
    /\ servers[1].ServerName = servers[2].ServerName
    /\ servers[1].PublishedAt < servers[2].PublishedAt
    /\ servers[2].IsLatest

\* C10: the target file holds a complete document whenever it exists, at every
\* step of every save and after every failure or crash; it changes only in
\* the rename, from the complete previous dataset to the complete new one.
C10_FileAlwaysComplete ==
    /\ [](file.kind \in {"absent", "json"})
    /\ [][file' # file =>
            /\ file' = FileJSON(Marshal(servers'))
            /\ servers' = servers
            /\ \E p \in Procs : pc[p] = "save_rename" /\ mu = p]_vars

\* A save has failed while writing the temporary file: the target still holds
\* the previous dataset, which the dataset in memory has moved on from.
C10_Witness ==
    /\ tmp.kind = "partial"
    /\ file.kind = "json"
    /\ file # FileJSON(Marshal(servers))

C17_ParseS3URL ==
    url.done =>
        IF url.in.shape = "none" THEN url.res.err # NoErr
        ELSE url.res = Parsed(url.in.bucket, url.in.key)


AllSteps == <<"parse", "download", "reload">>
InMessage == {"parse", "get", "create", "copy", "rename", "reload"}
IsPrefix(a, b) == Len(a) <= Len(b) /\ \A i \in 1..Len(a) : a[i] = b[i]

\* C12: for each message the listener parses, downloads to the backend's
\* file, reloads, deletes, in that order; it issues the delete exactly when
\* the three steps before it all succeeded, a message leaves the queue only
\* by that delete, and a failure at any step leaves the message received
\* and undeleted, for the queue to deliver again.
C12_Pipeline ==
    [][/\ IsPrefix(sq'.steps, AllSteps)
       /\ sq'.steps # sq.steps =>
              sq'.steps = <<>> \/ (Len(sq'.steps) = Len(sq.steps) + 1 /\ sq.lpc \in InMessage)
       /\ (Len(sq'.steps) = 2 /\ Len(sq.steps) = 1) =>
              file' = S3Object(Target.bucket, Target.key)
       /\ (Len(sq'.steps) = 3 /\ Len(sq.steps) = 2) =>
              servers' = Load(servers, file) /\ LoadError(file) = NoErr
       /\ sq'.lpc = "delete" <=> sq'.steps = AllSteps
       /\ \A m \in Msgs : (sq.queue[m] # "deleted" /\ sq'.queue[m] = "deleted") =>
              sq.lpc = "delete" /\ m = Current
       /\ (sq.lpc \in InMessage /\ sq'.idx # sq.idx) =>
              sq'.queue = sq.queue /\ sq.queue[Current] = "inflight"]_vars

C12_Witness ==
    /\ sq.queue[1] = "deleted"
    /\ sq.queue[2] = "visible"
    /\ sq.fail = Fail("get", "NoSuchKey")
    /\ servers = ObjectDataset


\* C13: no failure stops the loop: pollMessages exits only when stopped or
\* cancelled; when a message fails at any step, or its delete fails, the
\* next message of the batch is processed, and after the last one the loop
\* is back at its select; a receive error is followed by the Sleep, which
\* leads to the select only; and after any failure another receive is
\* issued unless the listener is stopped or cancelled.
C13_LoopSurvives ==
    /\ [](sq.lpc = "exited" => sq.stopped \/ sq.cancelled)
    /\ [][(sq.lpc \in InMessage \cup {"delete"} /\ sq'.idx # sq.idx) =>
              IF sq.idx < Len(sq.batch)
              THEN sq'.lpc = "parse" /\ sq'.idx = sq.idx + 1 /\ sq'.batch = sq.batch
              ELSE sq'.lpc = "select"]_vars
    /\ [][/\ (sq.lpc = "receive" /\ sq'.fail.at = "receive") => sq'.lpc = "sleep"
          /\ sq.lpc = "sleep" => sq'.lpc \in {"sleep", "select"}
          /\ (sq'.lpc = "receive" /\ sq.lpc # "receive") => sq.lpc = "select"]_vars
    /\ (sq.fail # NoFail) ~> (sq.lpc = "receive" \/ sq.stopped \/ sq.cancelled)

C13_Witness ==
    /\ sq.lpc = "receive"
    /\ sq.fails = MaxSyncFaults
    /\ sq.queue[1] = "inflight"
    /\ sq.queue[2] = "deleted"
    /\ ~sq.stopped
    /\ ~sq.cancelled


Signalled == sq.stopped \/ sq.cancelled

\* C14: once Stop is called or the context is cancelled, pollMessages
\* issues no further receive, leaves its loop only at the select (so the
\* iteration and the message in progress are finished first), and
\* eventually has exited.
C14_StopTerminates ==
    /\ [][(Signalled /\ sq.lpc # "receive") => sq'.lpc # "receive"]_vars
    /\ [][(sq'.lpc = "exited" /\ sq.lpc # "exited") => sq.lpc = "select" /\ Signalled]_vars
    /\ [][sq.lpc = "exited" => sq'.lpc = "exited"]_vars
    /\ Signalled ~> (sq.lpc = "exited")

C14_Witness ==
    /\ sq.lpc = "exited"
    /\ sq.stopped
    /\ ~sq.cancelled
    /\ sq.queue[2] = "deleted"
    /\ sq.queue[1] = "inflight"


\* C15: once the processing of a message has begun, cancelling the context
\* does not abort it: no step of the message fails because the context was
\* cancelled.
C15_NotAbortedByCancel ==
    sq.fail.at \in InMessage => sq.fail.cause # CtxCanceled


PastListenerInit == boot.pc \in {"metrics", "serving"}
ConfigErrorReported == boot.log \cap {LogNoQueueURL, LogNotJSONFile, LogInvalidType} # {}

\* C16: when the process is started with the sync pipeline enabled and the
\* relational backend selected, main reports a configuration error, and it
\* never creates or starts the listener.
C16_SQSNeedsJSONFile ==
    (boot.cfg.SQSEnabled /\ boot.cfg.DatabaseType = "postgres" /\ PastListenerInit) =>
        ConfigErrorReported /\ sq = NoListener


OtherInCallback == inst.txpc \in {"callback", "return"}

\* C18: the lock registry is shared by all instances of the process: a
\* transaction on one instance and a transaction on another that called
\* AcquirePublishLock for the same name are never both past it.
C18_SerialisedAcrossInstances ==
    \A p \in Procs : (InCallback(p) /\ OtherInCallback) => txName[p] # inst.txName


\* after differs from before in nothing but IsLatest, cleared, of records of n.
OnlyLatestCleared(before, after, n) ==
    /\ Len(after) = Len(before)
    /\ \A k \in 1..Len(before) :
          \/ after[k] = before[k]
          \/ /\ before[k].ServerName = n
             /\ before[k].IsLatest
             /\ after[k] = [before[k] EXCEPT !.IsLatest = FALSE]

\* C19: a callback's UnmarkAsLatest changes nothing but the IsLatest flags
\* of the name's records, and when it has returned the file holds that
\* dataset; the callback failing after it, and InTransaction returning that
\* error, change neither the dataset nor the file (no rollback), and a
\* restart loads what the file holds; a later publish of a version the
\* name does not have is not rejected as a duplicate, and whenever a publish
\* returns without error exactly one record of the name is the latest.
C19_AbortedPublishRecoverable ==
    [][\A p \in Procs :
          /\ (txpc[p] = "unmark" /\ servers' # servers /\ pc[p] = "idle" /\ pc'[p] # "idle") =>
                OnlyLatestCleared(servers, servers', txName[p])
          /\ (txpc[p] = "unmark" /\ txpc'[p] = "create" /\ pc[p] = "save_rename") =>
                /\ file' = FileJSON(Marshal(servers'))
                /\ LatestOf(servers', txName[p]) = {}
          /\ (txpc[p] = "create" /\ txpc'[p] = "return" /\ txErr'[p] = ErrAborted) =>
                servers' = servers /\ file' = file
          /\ (txpc[p] = "return" /\ txpc'[p] = "none" /\ txErr[p] # NoErr /\ ret'.op = "InTransaction") =>
                servers' = servers /\ file' = file
          /\ (txpc[p] = "create" /\ txpc'[p] = "none") =>
                servers' = Load(<<>>, file) /\ file' = file
          /\ (txpc[p] = "create" /\ txpc'[p] = "return" /\ txErr'[p] = ErrAlreadyExists) =>
                HasKey(servers, txName[p], txVersion[p])
          /\ (txpc[p] = "return" /\ txpc'[p] = "none" /\ txErr[p] = NoErr /\ ret'.op = "InTransaction") =>
                Cardinality(LatestOf(servers', txName[p])) = 1]_vars

\* A publish was given up after its unmark, and a later publish of a new
\* version of the name has returned without error.
C19_Witness ==
    /\ NameA \in hist.aborted
    /\ ret = [op |-> "InTransaction", err |-> NoErr]
    /\ Len(servers) = 2
    /\ servers[1].ServerName = NameA /\ ~servers[1].IsLatest
    /\ servers[2].ServerName = NameA /\ servers[2].IsLatest
    /\ file = FileJSON(Marshal(servers))


LastOf(q) == q[Len(q)]

\* C20: CreateServer without extensions stores and returns the record with
\* status active, publishedAt = updatedAt = the time of the call and
\* IsLatest = TRUE; with extensions it stores and returns exactly their
\* status, times and IsLatest; and the save that follows writes that record.
C20_CreateDefaults ==
    /\ [][(pc[Creator] = "idle" /\ pc'[Creator] = "save_write") =>
            LET r == LastOf(servers')
                out == pend'[Creator]
                want == IF hist.officialMeta = Nil
                        THEN [Status |-> StatusActive, PublishedAt |-> now,
                              UpdatedAt |-> now, IsLatest |-> TRUE]
                        ELSE Deref(hist.officialMeta)
            IN  /\ servers' = Append(servers, r)
                /\ r.Status = want.Status
                /\ r.PublishedAt = want.PublishedAt
                /\ r.UpdatedAt = want.UpdatedAt
                /\ r.IsLatest = want.IsLatest
                /\ r.Meta # Nil
                /\ Deref(r.Meta) = want
                /\ out.err = NoErr
                /\ out.resp # Nil
                /\ Deref(out.resp).Meta = want
                /\ Deref(out.resp).Server.Name = r.ServerName
                /\ Deref(out.resp).Server.Version = r.Version]_vars
    /\ [][(pc[Creator] = "save_rename" /\ pc'[Creator] = "idle"
              /\ ret' = [op |-> "CreateServer", err |-> NoErr]) =>
            servers' = servers /\ file' = FileJSON(Marshal(servers))]_vars

\* A record created without extensions at time MaxTime, after one created
\* with extensions of the caller's own.
C20_Witness ==
    /\ ret = [op |-> "CreateServer", err |-> NoErr]
    /\ pc[Creator] = "idle"
    /\ Len(servers) = 2
    /\ servers[1].Status = StatusDeprecated
    /\ servers[1].PublishedAt = 0
    /\ servers[1].UpdatedAt = MaxTime
    /\ ~servers[1].IsLatest
    /\ servers[2].Status = StatusActive
    /\ servers[2].PublishedAt = MaxTime
    /\ servers[2].UpdatedAt = MaxTime
    /\ servers[2].IsLatest
    /\ hist.officialMeta = Nil
    /\ file = FileJSON(Marshal(servers))


\* The position of the record of the key the caller of SpecUpdate chose.
KeyAt(servers_, key) ==
    CHOOSE k \in 1..Len(servers_) :
        servers_[k].ServerName = key[1] /\ servers_[k].Version = key[2]

Writes == {"UpdateServer", "SetServerStatus"}

\* C21: UpdateServer replaces the payload and sets updatedAt of the record
\* of (name, version), SetServerStatus sets its status and updatedAt; the
\* record's other fields and every other record stay as they were; with no
\* record of (name, version) the call returns ErrNotFound at once and the
\* dataset and the files stay as they were.
C21_UpdateFrame ==
    [][/\ (pc[Creator] = "idle" /\ pc'[Creator] = "save_write"
           /\ pend'[Creator].op \in Writes) =>
              /\ HasKey(servers, hist.key[1], hist.key[2])
              /\ LET i == KeyAt(servers, hist.key)
                     old == servers[i]
                     new == servers'[i]
                 IN  /\ Len(servers') = Len(servers)
                     /\ \A k \in 1..Len(servers) : k # i => servers'[k] = servers[k]
                     /\ new.ServerName = old.ServerName
                     /\ new.Version = old.Version
                     /\ new.PublishedAt = old.PublishedAt
                     /\ new.IsLatest = old.IsLatest
                     /\ new.Meta = old.Meta
                     /\ new.UpdatedAt = now
                     /\ IF pend'[Creator].op = "UpdateServer"
                        THEN /\ new.Status = old.Status
                             /\ new.Value = Some(ServerJSON(hist.key[1], hist.key[2], "d2", <<>>))
                        ELSE /\ new.Status = StatusDeprecated
                             /\ new.Value = old.Value
              /\ file' = file
       /\ (pc[Creator] = "idle" /\ pc'[Creator] = "idle" /\ ret' # ret /\ ret'.op \in Writes) =>
              /\ ret'.err = ErrNotFound
              /\ ~HasKey(servers, hist.key[1], hist.key[2])
              /\ servers' = servers
              /\ file' = file
              /\ tmp' = tmp]_vars

\* The second record was updated and the first deprecated, both after their
\* creation, and a call on a key that is not there has returned ErrNotFound.
C21_Witness ==
    /\ ret = [op |-> "UpdateServer", err |-> ErrNotFound]
    /\ hist.key = <<NameC, "1.0.0">>
    /\ Len(servers) = 2
    /\ servers[1].Status = StatusDeprecated
    /\ servers[1].UpdatedAt = MaxTime
    /\ servers[1].PublishedAt = 0
    /\ Deref(servers[1].Value).Description = "d1"
    /\ servers[2].Status = StatusActive
    /\ Deref(servers[2].Value).Description = "d2"
    /\ servers[2].IsLatest
    /\ file = FileJSON(Marshal(servers))


\* C22: UnmarkAsLatest(name) clears IsLatest on every record of the name
\* and changes nothing else; called when no record of the name is latest
\* (a second call, or a name without records) it returns no error at once
\* and leaves the dataset and the files as they are.
C22_UnmarkAll ==
    [][/\ (pc[Creator] = "idle" /\ pc'[Creator] = "save_write"
           /\ pend'[Creator].op = "UnmarkAsLatest") =>
              /\ LatestOf(servers, hist.key[1]) # {}
              /\ LatestOf(servers', hist.key[1]) = {}
              /\ OnlyLatestCleared(servers, servers', hist.key[1])
              /\ pend'[Creator].err = NoErr
              /\ file' = file
       /\ (pc[Creator] = "idle" /\ pc'[Creator] = "idle" /\ hist' = hist /\ now' = now
           /\ ret'.op = "UnmarkAsLatest") =>
              /\ ret'.err = NoErr
              /\ LatestOf(servers, hist.key[1]) = {}
              /\ servers' = servers
              /\ file' = file
              /\ tmp' = tmp]_vars

\* Both records of a name have been unmarked and saved, and a call for a
\* name without records has returned no error.
C22_Witness ==
    /\ ret = [op |-> "UnmarkAsLatest", err |-> NoErr]
    /\ hist.key[1] = NameC
    /\ Len(servers) = 2
    /\ servers[1].ServerName = NameA /\ ~servers[1].IsLatest
    /\ servers[2].ServerName = NameA /\ ~servers[2].IsLatest
    /\ Deref(servers[1].Meta).IsLatest
    /\ file = FileJSON(Marshal(servers))


\* C23: GetServerByName(name) returns a record of the name whose IsLatest is
\* TRUE when there is one, and ErrNotFound when there is none, versions of
\* the name existing or not.
C23_GetLatest ==
    ls.done =>
        LET r == ls.pages[1]
            n == hist.key[1]
        IN  /\ ~r.panic
            /\ IF LatestOf(servers, n) = {} THEN r.err = ErrNotFound /\ r.val = <<>>
               ELSE /\ r.err = NoErr
                    /\ Len(r.val) = 1
                    /\ r.val[1].Server.Name = n
                    /\ r.val[1].Meta.IsLatest
                    /\ \E k \in LatestOf(servers, n) :
                          /\ servers[k].Value # Nil
                          /\ r.val[1].Server = Deref(servers[k].Value)


\* C24: every record of the dataset has updatedAt >= publishedAt, whatever
\* calls were made.
C24_UpdatedNotBeforePublished ==
    \A k \in 1..Len(servers) : servers[k].UpdatedAt >= servers[k].PublishedAt


Accepted(ref) == \E g \in GoodURLs : g.arg = ref
ParseStepDone == sq.lpc = "parse" /\ sq'.lpc # "parse"

\* C25: a message {"location": reference} whose reference has an accepted
\* shape gets through the parse step (to be downloaded, reloaded and
\* deleted); a message without that member, or with a reference of another
\* shape, fails at the parse step and stays in the queue.
C25_LocationEnvelope ==
    [][ParseStepDone =>
          IF sq.env[Current].key = "location" /\ Accepted(sq.env[Current].ref)
          THEN sq'.lpc = "get"
          ELSE /\ sq'.fail.at = "parse"
               /\ sq'.queue = sq.queue
               /\ sq.queue[Current] = "inflight"]_vars


\* C26: whatever batch size and wait time are configured, the listener's
\* batch size is in 1..10 and its wait time in 0..20; zero gives 1 and 20,
\* values above the maxima give 10 and 20.
C26_ClampedConfig ==
    sq.lpc = "select" =>
        /\ sq.maxMessages \in 1..MaxMessagesCap
        /\ sq.waitTimeSeconds \in 0..WaitTimeCap
        /\ sq.cfg.MaxMessages = 0 => sq.maxMessages = 1
        /\ sq.cfg.WaitTimeSeconds = 0 => sq.waitTimeSeconds = WaitTimeCap
        /\ sq.cfg.MaxMessages > MaxMessagesCap => sq.maxMessages = MaxMessagesCap
        /\ sq.cfg.WaitTimeSeconds > WaitTimeCap => sq.waitTimeSeconds = WaitTimeCap


CursorMatches(servers_, cursor) ==
    \E k \in 1..Len(servers_) :
        cursor = CursorOf(servers_[k].ServerName, servers_[k].Version)

\* C27: ListServers with a cursor that is the token of no record of the
\* dataset, or no name:version token at all, returns what it returns with an
\* empty cursor, and no error.
C27_UnknownCursor ==
    (ls.done /\ ~CursorMatches(servers, ls.cursor)) =>
        /\ ls.pages[1] = ListServers(servers, ls.filter, <<>>, ls.limit)
        /\ ls.pages[1].err = NoErr

\* The cursor had a third part after the token of the first record, and the
\* call returned the first page, that record included.
C27_Witness ==
    /\ ls.done
    /\ ls.cursor = CursorOf(NameA, "1.0.0") \o <<Colon>> \o Bytes("k")
    /\ Len(servers) = 2
    /\ servers[1].ServerName = NameA /\ servers[1].Version = "1.0.0"
    /\ ~ls.pages[1].panic
    /\ Len(ls.pages[1].val) = 1
    /\ ls.pages[1].val[1].Server.Name = NameA
    /\ ls.pages[1].val[1].Server.Version = "1.0.0"
    /\ ls.pages[1].next = CursorOf(NameA, "1.0.0")


\* A step of Reload, and a step that constructs the backend anew.
ReloadStep ==
    /\ ret'.op = "Reload"
    /\ ret' # ret \/ servers' # servers
    /\ UNCHANGED <<file, tmp, mu, locks, now, pc, pend, txVars, faults, ls, extVars>>

ConstructStep ==
    /\ ret' = Returned(NoReturn)
    /\ locks' = [id \in {} |-> 0]
    /\ pc' = [p \in Procs |-> "idle"]
    /\ UNCHANGED <<file, now>>
    /\ ret # ret' \/ pc # pc' \/ servers # servers'

\* What the dataset is after loading the file over the dataset before.
LoadedFrom(before) ==
    /\ file.kind = "absent" => servers' = <<>>
    /\ file.kind = "empty" => servers' = before
    /\ file.kind = "json" => servers' = Unmarshal(file.doc)

\* C28: construction and Reload do the same on the file's state: an absent
\* file gives an empty dataset and no error, an empty file keeps the dataset,
\* any other file replaces the dataset by its parsed content.
C28_LoadAndReloadAlike ==
    [][/\ ReloadStep =>
            /\ LoadedFrom(servers)
            /\ file.kind = "absent" => ret'.err = NoErr
       /\ ConstructStep => LoadedFrom(<<>>)]_vars


Reading == ls.rpc \in {"scan", "cursor"}

\* C29: Reload excludes every read and write: what a read returns is computed
\* from the dataset as it was when the read took the lock, no Reload runs and
\* the dataset does not change while the read holds the lock, and no Reload
\* runs while a writer holds the lock.
C29_ReloadExcluded ==
    /\ []((ls.rpc = "idle" /\ ls.pages # <<>>) =>
            ls.pages[1] = ListServers(ls.before, ls.filter, ls.cursor, ls.limit))
    /\ [][/\ Reading => servers' = servers /\ ~ReloadStep
          /\ mu \in Procs => ~ReloadStep]_vars

\* A read is between two records of a dataset of two, holding the lock, and
\* the file holds another dataset that a Reload would put in its place.
C29_Witness ==
    /\ ls.rpc = "scan"
    /\ Len(ls.results) = 1
    /\ Len(servers) = 2
    /\ file = FileJSON(Marshal(ObjectDataset))
    /\ servers # ObjectDataset
    /\ mu = RLocked


InDownload == {"get", "create", "copy", "rename"}

\* C30: the downloader changes the target only by the rename of a temporary
\* file that holds the whole object; when a step of a download fails the
\* target is as it was, no temporary file is left, and an error is returned.
C30_DownloadByRename ==
    [][/\ file' # file =>
            /\ sq.lpc = "rename"
            /\ tmp = S3Object(Target.bucket, Target.key)
            /\ file' = tmp
       /\ (sq.lpc \in InDownload /\ sq'.lpc \notin InDownload \cup {"reload"}) =>
            /\ file' = file
            /\ tmp' = FileAbsent
            /\ sq'.fail.at = sq.lpc
            /\ sq'.fail.cause # NoErr]_vars

\* A first download put the object at the path; the copy of a second one
\* failed: the target still holds the object and no temporary file is left.
C30_Witness ==
    /\ sq.fail.at = "copy"
    /\ file = FileJSON(Marshal(ObjectDataset))
    /\ tmp = FileAbsent
    /\ sq.lpc \notin InDownload


\* A record satisfies a filter: every field that is set agrees with it.
Satisfies(r, filter) ==
    LET f == Deref(filter) IN
    /\ f.Name # Nil => r.ServerName = Deref(f.Name)
    /\ f.Version # Nil => r.Version = Deref(f.Version)
    /\ f.IsLatest # Nil => r.IsLatest = Deref(f.IsLatest)
    /\ f.SubstringName # Nil =>
          Contains(ToLower(Bytes(r.ServerName)), ToLower(Bytes(Deref(f.SubstringName))))
    /\ f.UpdatedSince # Nil => r.UpdatedAt > Deref(f.UpdatedSince)
    /\ f.RemoteURL # Nil =>
          /\ r.Value # Nil
          /\ \E k \in 1..Len(Deref(r.Value).Remotes) :
                Deref(r.Value).Remotes[k] = Deref(f.RemoteURL)

\* The keys of the records that satisfy the filter, in persisted order.
RECURSIVE SatisfyingKeys(_, _)
SatisfyingKeys(servers_, filter) ==
    IF servers_ = <<>> THEN <<>>
    ELSE (IF Satisfies(Head(servers_), filter)
          THEN <<<<Head(servers_).ServerName, Head(servers_).Version>>>> ELSE <<>>)
         \o SatisfyingKeys(Tail(servers_), filter)

KeysOfPage(page) ==
    [k \in 1..Len(page.val) |-> <<page.val[k].Server.Name, page.val[k].Server.Version>>]

\* C31: a ListServers call whose limit the dataset does not reach returns,
\* without error and in persisted order, the records that satisfy every field
\* the filter sets, and no other.
C31_FilterAndOrder ==
    ls.done =>
        /\ ~ls.pages[1].panic
        /\ ls.pages[1].err = NoErr
        /\ KeysOfPage(ls.pages[1]) = SatisfyingKeys(servers, ls.filter)


\* C32: a GetServerByName of a name, made while a publish of a new version to
\* that name is in progress, returns a version of the name and never
\* ErrNotFound.
C32_ReaderSeesAVersion ==
    (ls.pages # <<>> /\ ls.during) =>
        /\ ~ls.pages[1].panic
        /\ ls.pages[1].err = NoErr
        /\ Len(ls.pages[1].val) = 1
        /\ ls.pages[1].val[1].Server.Name = NameA
        /\ ls.pages[1].val[1].Server.Version \in {"1.0.0", "1.1.0"}


\* C33: with a download and a backend write running at once, the target file
\* holds at every moment one whole document, the downloaded object or a whole
\* saved dataset, or is yet to be written.
C33_TargetWhole == file = FileAbsent \/ file.kind = "json"


\* C34: the reload of a message the listener goes on to delete leaves in
\* memory the dataset of the object the message's download fetched, whatever
\* the backend's callers write meanwhile.
C34_ReloadedIsObject ==
    [][(sq.lpc = "reload" /\ sq'.lpc = "delete") =>
          servers' = Unmarshal(S3Object(Target.bucket, Target.key).doc)]_vars


\* C35: every InTransaction whose callback only acquires publish locks and
\* returns completes.
C35_TransactionsComplete ==
    \A p \in Procs : (txpc[p] # "none") ~> (txpc[p] = "none")


Locked(id) == id \in DOMAIN locks /\ locks[id] # 0

\* C36: every publish lock that AcquirePublishLock has taken is released in
\* the end, whatever transaction handle it was called with.
C36_LocksReleased ==
    \A n \in LockNames : Locked(LockID(n)) ~> ~Locked(LockID(n))


\* C37: whenever no operation is in progress, the last one having returned
\* nil or an error, the dataset in memory is what the file holds.
C37_MemoryIsFile ==
    (\A p \in Procs : pc[p] = "idle") => servers = Load(<<>>, file)


\* C38: when the file holds a document that does not parse, the reload
\* returns an error and leaves the dataset in memory as it was, and the
\* message that triggered it is not deleted.
C38_UnparsableKept ==
    [][(sq.lpc = "reload" /\ sq'.lpc # "reload" /\ file.kind = "partial") =>
          /\ servers' = servers
          /\ sq'.fail.at = "reload"
          /\ sq'.fail.cause # NoErr
          /\ sq'.queue[Current] = "inflight"]_vars

\* A first message's object was loaded and the message deleted; the second
\* message's object does not parse: its reload failed, the first dataset is
\* still served and the message is still in the queue.
C38_Witness ==
    /\ sq.fail.at = "reload"
    /\ file.kind = "partial"
    /\ servers = ObjectDataset
    /\ sq.queue[1] = "deleted"
    /\ sq.queue[2] = "inflight"


\* The index of the record whose name and version a cursor was made of.
Encoded(servers_, cursor) ==
    FirstIndex({k \in 1..Len(servers_) :
                  CursorOf(servers_[k].ServerName, servers_[k].Version) = cursor})

\* C39: the page got by resubmitting a cursor starts with the record after the
\* one the cursor was made of, whatever bytes the name holds, and the client
\* gets an empty cursor after no more pages than there are records.
C39_CursorResumes ==
    /\ \A i \in 1..(Len(ls.pages) - 1) :
          LET k == Encoded(servers, ls.pages[i].next) IN
          /\ k > 0
          /\ k < Len(servers)
          /\ ls.pages[i + 1].val # <<>>
          /\ ls.pages[i + 1].val[1] = ServerResponse(servers[k + 1])
    /\ Len(ls.pages) <= Len(servers) + 1


\* C40: a call of ParseS3URL that returns no error returns a bucket and a key
\* that are both non-empty.
C40_NoEmptyReference ==
    (url.done /\ url.res.err = NoErr) =>
        (url.res.bucket # <<>> /\ url.res.key # <<>>)

====
